---------------------------- MODULE Spec2Model ----------------------------
(***************************************************************************)
(* Model of the alpaqa problem interface (util/problem.cpp, problem.hpp)   *)
(* and of the ALM helper functions (detail/alm-helpers.hpp): project_y,    *)
(* update_penalty_weights and initialize_penalty.                          *)
(*                                                                         *)
(* real_t values are modelled as exact rationals <<n, d>> with d > 0 in    *)
(* lowest terms, extended with the IEEE-754 special values +inf = <<1,0>>, *)
(* -inf = <<-1,0>> and NaN = <<0,0>>.  Comparisons, std::min/std::max and  *)
(* std::fmin/std::fmax follow their C++ semantics on these values.         *)
(* Rounding and signed zeros are not modelled.  Overflow of a finite       *)
(* result to +-inf is modelled in initialize_penalty, whose result depends *)
(* on it, with the threshold RealMax in place of the largest finite real_t.*)
(***************************************************************************)
EXTENDS Integers, Sequences, FiniteSets, TLC

VARIABLES
    pc,     \* position of the harness that drives the functions
    prj,    \* project_y: multipliers y, bounds z_lb, z_ub, bound M
    pen,    \* update_penalty_weights: arguments and the output vector
    alm,    \* ALM outer state: penalty weights and parameters
    ev,     \* problem evaluations: problem data at x, arguments, buffers
    par,    \* parameter validation: the parameters and the outcome of verify
    thr,    \* threads that share one ProblemWithCounters object
    cutest  \* CUTEstLoader: library handle, OUTSDIF file, function pointers

vars == <<pc, prj, pen, alm, ev, par, thr, cutest>>

\* Largest number of general constraints m of the modelled problems.
MaxM == 2

----------------------------------------------------------------------------
(* real_t arithmetic                                                       *)

RECURSIVE Gcd(_, _)
Gcd(a, b) ==
    IF b = 0 THEN a ELSE Gcd(b, a % b)

IAbs(i) ==
    IF i < 0 THEN -i ELSE i

Sgn(i) ==
    IF i < 0 THEN -1 ELSE IF i > 0 THEN 1 ELSE 0

\* The rational n/d (d # 0) in lowest terms with a positive denominator.
Q(n, d) ==
    LET g == Gcd(IAbs(n), IAbs(d))
    IN  <<Sgn(d) * (n \div g), IAbs(d) \div g>>

R(n) ==
    <<n, 1>>

PInf ==
    <<1, 0>>

NInf ==
    <<-1, 0>>

NaN ==
    <<0, 0>>

IsNaN(a) ==
    a = NaN

IsFinite(a) ==
    a[2] > 0

\* a < b for real_t: false when either operand is NaN.
Lt(a, b) ==
    IF IsNaN(a) \/ IsNaN(b) THEN FALSE
    ELSE IF a = PInf \/ b = NInf THEN FALSE
    ELSE IF a = NInf \/ b = PInf THEN TRUE
    ELSE a[1] * b[2] < b[1] * a[2]

Gt(a, b) ==
    Lt(b, a)

\* a == b for real_t: NaN compares unequal to everything.
Eq(a, b) ==
    ~IsNaN(a) /\ ~IsNaN(b) /\ a = b

Le(a, b) ==
    Lt(a, b) \/ Eq(a, b)

Ge(a, b) ==
    Le(b, a)

Neg(a) ==
    <<-a[1], a[2]>>

Abs(a) ==
    <<IAbs(a[1]), a[2]>>

Add(a, b) ==
    IF IsNaN(a) \/ IsNaN(b) THEN NaN
    ELSE IF ~IsFinite(a) /\ ~IsFinite(b) THEN (IF a = b THEN a ELSE NaN)
    ELSE IF ~IsFinite(a) THEN a
    ELSE IF ~IsFinite(b) THEN b
    ELSE Q(a[1] * b[2] + b[1] * a[2], a[2] * b[2])

Sub(a, b) ==
    Add(a, Neg(b))

Mul(a, b) ==
    IF ~IsFinite(a) \/ ~IsFinite(b) THEN <<Sgn(a[1]) * Sgn(b[1]), 0>>
    ELSE Q(a[1] * b[1], a[2] * b[2])

Div(a, b) ==
    IF IsNaN(a) \/ IsNaN(b) THEN NaN
    ELSE IF ~IsFinite(a) THEN
        (IF ~IsFinite(b) THEN NaN
         ELSE <<a[1] * (IF b[1] < 0 THEN -1 ELSE 1), 0>>)
    ELSE IF ~IsFinite(b) THEN R(0)
    ELSE IF b[1] = 0 THEN <<Sgn(a[1]), 0>>
    ELSE Q(a[1] * b[2], a[2] * b[1])

\* std::max(a, b) is (a < b) ? b : a; std::min(a, b) is (b < a) ? b : a.
StdMax(a, b) ==
    IF Lt(a, b) THEN b ELSE a

StdMin(a, b) ==
    IF Lt(b, a) THEN b ELSE a

\* std::fmax / std::fmin: a NaN operand is treated as missing data.
Fmax(a, b) ==
    IF IsNaN(a) THEN b ELSE IF IsNaN(b) THEN a ELSE IF Lt(a, b) THEN b ELSE a

Fmin(a, b) ==
    IF IsNaN(a) THEN b ELSE IF IsNaN(b) THEN a ELSE IF Lt(b, a) THEN b ELSE a

\* Magnitude above which a real_t result overflows to +-inf (stands for
\* std::numeric_limits<real_t>::max()).
RealMax == 1000

\* The real_t that holds the exact result a of one arithmetic operation.
Fl(a) ==
    IF IsFinite(a) /\ IAbs(a[1]) > RealMax * a[2] THEN <<Sgn(a[1]), 0>> ELSE a

\* The evaluation counters have the type unsigned (32 bits).  A counter that
\* holds v is represented by the integer v - 2^31, so that all 2^32 values are
\* integers the model checker can hold: CounterZero represents 0 and
\* CounterTop represents 2^32 - 1, the largest value.
CounterTop == 2147483647

CounterZero ==
    -CounterTop - 1

\* ++c on an unsigned counter: the largest value wraps to 0.
Incremented(c) ==
    IF c = CounterTop THEN CounterZero ELSE c + 1

Idle ==
    <<>>

----------------------------------------------------------------------------
(* detail::project_y                                                       *)

\* Faulty variant of max_lb: the lower bound is -M whether or not z_lb is -inf.
max_lb_always_M(M, y, z_lb) ==
    StdMax(y, Neg(M))

\* [M](real_t y, real_t z_lb) { y_lb = z_lb == -inf ? 0 : -M; max(y, y_lb) }
max_lb(M, y, z_lb) ==
    LET y_lb == IF Eq(z_lb, NInf) THEN R(0) ELSE Neg(M)
    IN  StdMax(y, y_lb)

\* [M](real_t y, real_t z_ub) { y_ub = z_ub == inf ? 0 : M; min(y, y_ub) }
min_ub(M, y, z_ub) ==
    LET y_ub == IF Eq(z_ub, PInf) THEN R(0) ELSE M
    IN  StdMin(y, y_ub)

\* y = y.binaryExpr(z_lb, max_lb).binaryExpr(z_ub, min_ub)
project_y(y, z_lb, z_ub, M) ==
    [i \in DOMAIN y |-> min_ub(M, max_lb(M, y[i], z_lb[i]), z_ub[i])]

\* Multiplier components handed to project_y.
YVals ==
    {NInf, R(-3), R(-1), R(0), R(1), R(3), PInf, NaN}

\* Constraint bounds (z_lb, z_ub) of one component, z_lb <= z_ub.
ZBounds ==
    {<<NInf, PInf>>, <<NInf, R(1)>>, <<R(-1), PInf>>, <<R(-1), R(1)>>,
     <<R(1), R(1)>>}

MVals ==
    {R(0), R(2), PInf}

ProjInit ==
    /\ pc = "project_y"
    /\ \E m \in 0..MaxM : \E z \in [1..m -> ZBounds], M \in MVals :
          prj = [y     |-> [i \in 1..m |-> R(0)],
                 y_in  |-> [i \in 1..m |-> R(0)],
                 z_lb  |-> [i \in 1..m |-> z[i][1]],
                 z_ub  |-> [i \in 1..m |-> z[i][2]],
                 M     |-> M,
                 calls |-> 0]
    /\ pen = Idle /\ alm = Idle /\ ev = Idle
    /\ par = Idle /\ thr = Idle
    /\ cutest = Idle

\* The multiplier update of one ALM iteration: y <- project_y(y_hat).
ProjectY ==
    /\ pc = "project_y"
    /\ prj.calls = 0
    /\ \E y_hat \in [DOMAIN prj.y -> YVals] :
          prj' = [prj EXCEPT !.y_in = y_hat,
                             !.y = project_y(y_hat, prj.z_lb, prj.z_ub, prj.M),
                             !.calls = 1]
    /\ UNCHANGED <<pc, pen, alm, ev, par, thr, cutest>>

\* project_y applied again to the multipliers it produced.
ProjectYAgain ==
    /\ pc = "project_y"
    /\ prj.calls = 1
    /\ prj' = [prj EXCEPT !.y_in = prj.y,
                          !.y = project_y(prj.y, prj.z_lb, prj.z_ub, prj.M),
                          !.calls = 2]
    /\ UNCHANGED <<pc, pen, alm, ev, par, thr, cutest>>

ProjNext ==
    \/ ProjectY
    \/ ProjectYAgain

SpecProj ==
    ProjInit /\ [][ProjNext]_vars

\* The safeguard region Y(M) of component i, from the claim's definition.
Y_lb(i) ==
    IF prj.z_lb[i] = NInf THEN R(0) ELSE Neg(prj.M)

Y_ub(i) ==
    IF prj.z_ub[i] = PInf THEN R(0) ELSE prj.M

\* Mathematical clamp of a non-NaN value v to [lo, hi], lo <= hi.
Clamp(v, lo, hi) ==
    IF Lt(v, lo) THEN lo ELSE IF Lt(hi, v) THEN hi ELSE v

NoNaN(v) ==
    \A i \in DOMAIN v : ~IsNaN(v[i])

\* C3: for every NaN-free input vector, every bounds z_lb <= z_ub and every
\* M >= 0, after project_y each component lies in [y_lb(i), y_ub(i)] and
\* equals the clamp of the input component to that interval.
C3_ProjectYInBox ==
    (pc = "project_y" /\ prj.calls > 0 /\ NoNaN(prj.y_in)) =>
        \A i \in DOMAIN prj.y :
            /\ Le(Y_lb(i), prj.y[i])
            /\ Le(prj.y[i], Y_ub(i))
            /\ prj.y[i] = Clamp(prj.y_in[i], Y_lb(i), Y_ub(i))

\* C3 witness: a projection that clamped one component up to -M, one down to
\* 0 (upper bound +inf) in the same call.
C3_Witness ==
    /\ pc = "project_y" /\ prj.calls = 1 /\ NoNaN(prj.y_in)
    /\ \E i, j \in DOMAIN prj.y :
          /\ Lt(prj.y_in[i], prj.y[i]) /\ prj.y[i] = Neg(prj.M)
          /\ Lt(prj.y[j], prj.y_in[j]) /\ prj.y[j] = R(0) /\ prj.z_ub[j] = PInf

\* C3 for every input vector, NaN components included: after project_y each
\* component lies in [y_lb(i), y_ub(i)].
C3_AnyInputInBox ==
    (pc = "project_y" /\ prj.calls > 0) =>
        \A i \in DOMAIN prj.y :
            /\ Le(Y_lb(i), prj.y[i])
            /\ Le(prj.y[i], Y_ub(i))

\* C19: if an input multiplier component passed to project_y is non-finite
\* (NaN, +inf or -inf), the output component is the projection of 0 onto
\* [y_lb(i), y_ub(i)]: never NaN, nor +-M.
C19_NonFiniteProjectsZero ==
    (pc = "project_y" /\ prj.calls > 0) =>
        \A i \in DOMAIN prj.y :
            ~IsFinite(prj.y_in[i]) =>
                prj.y[i] = Clamp(R(0), Y_lb(i), Y_ub(i))

\* What project_y does with a non-finite component: NaN stays NaN, +inf
\* becomes y_ub(i) and -inf becomes y_lb(i).
C19_NonFiniteClamped ==
    (pc = "project_y" /\ prj.calls > 0) =>
        \A i \in DOMAIN prj.y :
            /\ IsNaN(prj.y_in[i]) => IsNaN(prj.y[i])
            /\ prj.y_in[i] = PInf => prj.y[i] = Y_ub(i)
            /\ prj.y_in[i] = NInf => prj.y[i] = Y_lb(i)

\* y lies inside the safeguard region Y(M).
InsideY(y) ==
    \A i \in DOMAIN y : Le(Y_lb(i), y[i]) /\ Le(y[i], Y_ub(i))

UnboundedBothSides(i) ==
    prj.z_lb[i] = NInf /\ prj.z_ub[i] = PInf

\* What a call of project_y leaves alone: z_lb, z_ub and M.
ProjectYFrame ==
    /\ prj'.z_lb = prj.z_lb
    /\ prj'.z_ub = prj.z_ub
    /\ prj'.M = prj.M

\* C28: project_y is idempotent and is the identity inside the safeguard
\* region: for M >= 0 the projection of a projected y is that y, a y already
\* inside Y(M) is returned unchanged, and a component whose constraint is
\* unbounded on both sides is always set to 0; z_lb, z_ub and M are never
\* modified.
C28_IdempotentIdentity ==
    [][(pc = "project_y" /\ prj'.calls > prj.calls) =>
          /\ prj'.calls = 2 => prj'.y = prj.y
          /\ InsideY(prj'.y_in) => prj'.y = prj'.y_in
          /\ \A i \in DOMAIN prj.y : UnboundedBothSides(i) => prj'.y[i] = R(0)
          /\ ProjectYFrame]_vars

\* C28 for inputs without NaN components.
C28_IdempotentIdentityNoNaN ==
    [][(pc = "project_y" /\ prj'.calls > prj.calls /\ NoNaN(prj'.y_in)) =>
          /\ prj'.calls = 2 => prj'.y = prj.y
          /\ InsideY(prj'.y_in) => prj'.y = prj'.y_in
          /\ \A i \in DOMAIN prj.y : UnboundedBothSides(i) => prj'.y[i] = R(0)
          /\ ProjectYFrame]_vars

----------------------------------------------------------------------------
(* detail::update_penalty_weights                                          *)

\* Faulty variant of update_penalty_weights: the per-constraint factor is not bounded
\* below by 1.
update_penalty_weights_nofmax(params, Delta, first_iter, e, old_e, norm_e, old_norm_e, Sigma_old) ==
    IF Le(norm_e, params.delta) THEN
        Sigma_old
    ELSE IF params.single_penalty_factor THEN
        IF first_iter \/ Gt(norm_e, Mul(params.theta, old_norm_e)) THEN
            LET new_Sigma == Fmin(params.Sigma_max, Mul(Delta, Sigma_old[1]))
            IN  [i \in DOMAIN Sigma_old |-> new_Sigma]
        ELSE
            Sigma_old
    ELSE
        [i \in DOMAIN e |->
            IF first_iter \/ Gt(Abs(e[i]), Mul(params.theta, Abs(old_e[i]))) THEN
                Fmin(params.Sigma_max,
                     Mul(Div(Mul(Delta, Abs(e[i])), norm_e), Sigma_old[i]))
            ELSE
                Sigma_old[i]]

\* Faulty variant of update_penalty_weights: the uniform update is not capped at
\* Sigma_max.
update_penalty_weights_nocap(params, Delta, first_iter, e, old_e, norm_e, old_norm_e, Sigma_old) ==
    IF Le(norm_e, params.delta) THEN
        Sigma_old
    ELSE IF params.single_penalty_factor THEN
        IF first_iter \/ Gt(norm_e, Mul(params.theta, old_norm_e)) THEN
            LET new_Sigma == Mul(Delta, Sigma_old[1])
            IN  [i \in DOMAIN Sigma_old |-> new_Sigma]
        ELSE
            Sigma_old
    ELSE
        [i \in DOMAIN e |->
            IF first_iter \/ Gt(Abs(e[i]), Mul(params.theta, Abs(old_e[i]))) THEN
                Fmin(params.Sigma_max,
                     Mul(Fmax(Div(Mul(Delta, Abs(e[i])), norm_e), R(1)),
                         Sigma_old[i]))
            ELSE
                Sigma_old[i]]

\* Faulty variant of update_penalty_weights: the per-constraint test compares |e(i)|
\* with theta times the norm of the old violation instead of |old_e(i)|.
update_penalty_weights_normtest(params, Delta, first_iter, e, old_e, norm_e, old_norm_e, Sigma_old) ==
    IF Le(norm_e, params.delta) THEN
        Sigma_old
    ELSE IF params.single_penalty_factor THEN
        IF first_iter \/ Gt(norm_e, Mul(params.theta, old_norm_e)) THEN
            LET new_Sigma == Fmin(params.Sigma_max, Mul(Delta, Sigma_old[1]))
            IN  [i \in DOMAIN Sigma_old |-> new_Sigma]
        ELSE
            Sigma_old
    ELSE
        [i \in DOMAIN e |->
            IF first_iter \/ Gt(Abs(e[i]), Mul(params.theta, old_norm_e)) THEN
                Fmin(params.Sigma_max,
                     Mul(Fmax(Div(Mul(Delta, Abs(e[i])), norm_e), R(1)),
                         Sigma_old[i]))
            ELSE
                Sigma_old[i]]

\* Faulty variant of update_penalty_weights: the tolerance test is skipped on the
\* first iteration.
update_penalty_weights_noskip(params, Delta, first_iter, e, old_e, norm_e, old_norm_e, Sigma_old) ==
    IF ~first_iter /\ Le(norm_e, params.delta) THEN
        Sigma_old
    ELSE IF params.single_penalty_factor THEN
        IF first_iter \/ Gt(norm_e, Mul(params.theta, old_norm_e)) THEN
            LET new_Sigma == Fmin(params.Sigma_max, Mul(Delta, Sigma_old[1]))
            IN  [i \in DOMAIN Sigma_old |-> new_Sigma]
        ELSE
            Sigma_old
    ELSE
        [i \in DOMAIN e |->
            IF first_iter \/ Gt(Abs(e[i]), Mul(params.theta, Abs(old_e[i]))) THEN
                Fmin(params.Sigma_max,
                     Mul(Fmax(Div(Mul(Delta, Abs(e[i])), norm_e), R(1)),
                         Sigma_old[i]))
            ELSE
                Sigma_old[i]]

\* Faulty variant of update_penalty_weights: the per-constraint loop is run
\* whatever single_penalty_factor says.
update_penalty_weights_ignores_mode(params, Delta, first_iter, e, old_e, norm_e, old_norm_e, Sigma_old) ==
    IF Le(norm_e, params.delta) THEN
        Sigma_old
    ELSE
        [i \in DOMAIN e |->
            IF first_iter \/ Gt(Abs(e[i]), Mul(params.theta, Abs(old_e[i]))) THEN
                Fmin(params.Sigma_max,
                     Mul(Fmax(Div(Mul(Delta, Abs(e[i])), norm_e), R(1)),
                         Sigma_old[i]))
            ELSE
                Sigma_old[i]]

\* The new penalty vector that update_penalty_weights writes to its output
\* argument.  params carries delta, theta, Sigma_max, single_penalty_factor.
update_penalty_weights(params, Delta, first_iter, e, old_e, norm_e, old_norm_e, Sigma_old) ==
    IF Le(norm_e, params.delta) THEN
        Sigma_old
    ELSE IF params.single_penalty_factor THEN
        IF first_iter \/ Gt(norm_e, Mul(params.theta, old_norm_e)) THEN
            LET new_Sigma == Fmin(params.Sigma_max, Mul(Delta, Sigma_old[1]))
            IN  [i \in DOMAIN Sigma_old |-> new_Sigma]
        ELSE
            Sigma_old
    ELSE
        [i \in DOMAIN e |->
            IF first_iter \/ Gt(Abs(e[i]), Mul(params.theta, Abs(old_e[i]))) THEN
                Fmin(params.Sigma_max,
                     Mul(Fmax(Div(Mul(Delta, Abs(e[i])), norm_e), R(1)),
                         Sigma_old[i]))
            ELSE
                Sigma_old[i]]

\* Faulty variant of update_penalty_weights_divisors: the update is skipped
\* only for norm_e < delta.
update_penalty_weights_divisors_strict(params, Delta, first_iter, e, old_e, norm_e, old_norm_e, Sigma_old) ==
    IF Lt(norm_e, params.delta) THEN {}
    ELSE IF params.single_penalty_factor THEN {}
    ELSE {norm_e : i \in {j \in DOMAIN e :
                              first_iter \/
                              Gt(Abs(e[j]), Mul(params.theta, Abs(old_e[j])))}}

\* The divisors of the divisions that a call of update_penalty_weights
\* evaluates: norm_e in Delta |e(i)| / norm_e for each component that the
\* per-constraint loop updates, none on the other paths.
update_penalty_weights_divisors(params, Delta, first_iter, e, old_e, norm_e, old_norm_e, Sigma_old) ==
    IF Le(norm_e, params.delta) THEN {}
    ELSE IF params.single_penalty_factor THEN {}
    ELSE {norm_e : i \in {j \in DOMAIN e :
                              first_iter \/
                              Gt(Abs(e[j]), Mul(params.theta, Abs(old_e[j])))}}

\* Argument values of the calls that are explored.
SigmaVals ==
    {R(1), R(2), R(5)}

SigmaMaxVals ==
    {R(2), R(100)}

DeltaVals ==
    {Q(3, 2), R(3)}

ThetaVals ==
    {Q(1, 4), Q(1, 2)}

DeltaTolVals ==
    {R(0), R(1)}

EVals ==
    {R(-2), R(0), R(1)}

OldEVals ==
    {R(-4), R(1)}

NormVals ==
    {R(0), R(1), R(2)}

OldNormVals ==
    {R(1), R(8)}

UpdInit ==
    /\ pc = "call"
    /\ \E m \in 1..MaxM :
       \E Sigma_old \in [1..m -> SigmaVals], e \in [1..m -> EVals],
          old_e \in [1..m -> OldEVals], norm_e \in NormVals,
          old_norm_e \in OldNormVals, first_iter \in BOOLEAN,
          single \in BOOLEAN, Sigma_max \in SigmaMaxVals, Delta \in DeltaVals,
          theta \in ThetaVals, delta \in DeltaTolVals :
          pen = [params     |-> [delta |-> delta, theta |-> theta,
                                 Sigma_max |-> Sigma_max,
                                 single_penalty_factor |-> single],
                 Delta      |-> Delta,
                 first_iter |-> first_iter,
                 e          |-> e,
                 old_e      |-> old_e,
                 norm_e     |-> norm_e,
                 old_norm_e |-> old_norm_e,
                 Sigma_old  |-> Sigma_old,
                 Sigma      |-> [i \in 1..m |-> R(0)],
                 divisors   |-> {}]
    /\ prj = Idle /\ alm = Idle /\ ev = Idle
    /\ par = Idle /\ thr = Idle
    /\ cutest = Idle

UpdatePenaltyWeights ==
    /\ pc = "call"
    /\ pen' = [pen EXCEPT
                  !.Sigma =
                      update_penalty_weights(pen.params, pen.Delta, pen.first_iter,
                                             pen.e, pen.old_e, pen.norm_e,
                                             pen.old_norm_e, pen.Sigma_old),
                  !.divisors =
                      update_penalty_weights_divisors(pen.params, pen.Delta,
                                             pen.first_iter, pen.e, pen.old_e,
                                             pen.norm_e, pen.old_norm_e,
                                             pen.Sigma_old)]
    /\ pc' = "done"
    /\ UNCHANGED <<prj, alm, ev, par, thr, cutest>>

UpdNext ==
    UpdatePenaltyWeights

SpecUpdate ==
    UpdInit /\ [][UpdNext]_vars

\* Order and extrema of finite reals, as used in the statements below.
MathMin(a, b) ==
    IF a[1] * b[2] <= b[1] * a[2] THEN a ELSE b

MathMax(a, b) ==
    IF a[1] * b[2] >= b[1] * a[2] THEN a ELSE b

Uniform(v) ==
    \A i, j \in DOMAIN v : v[i] = v[j]

\* C1 as stated: for every call, with any positive Sigma_old, every output
\* component is at least the corresponding component of Sigma_old.
C1_AnySigmaOldNonDecreasing ==
    pc = "done" =>
        \A i \in DOMAIN pen.Sigma : Ge(pen.Sigma[i], pen.Sigma_old[i])

\* The inputs for which update_penalty_weights cannot shrink a component:
\* Sigma_old does not exceed Sigma_max and, in uniform mode, is uniform.
C1_Pre ==
    /\ \A i \in DOMAIN pen.Sigma_old : Le(pen.Sigma_old[i], pen.params.Sigma_max)
    /\ pen.params.single_penalty_factor => Uniform(pen.Sigma_old)

\* C1 (amended): for every call whose Sigma_old has positive components not
\* above Sigma_max and, in uniform mode, all equal, every output component
\* satisfies Sigma(i) >= Sigma_old(i).
C1_NonDecreasing ==
    (pc = "done" /\ C1_Pre) =>
        \A i \in DOMAIN pen.Sigma : Ge(pen.Sigma[i], pen.Sigma_old[i])

\* C1 witness: a per-constraint call inside the precondition that grew one
\* component and kept another.
C1_Witness ==
    /\ pc = "done" /\ C1_Pre /\ ~pen.params.single_penalty_factor
    /\ \E i, j \in DOMAIN pen.Sigma :
          /\ Gt(pen.Sigma[i], pen.Sigma_old[i])
          /\ pen.Sigma[j] = pen.Sigma_old[j]

\* The uniform-mode growth test: first iteration or ||e|| > theta ||e_old||.
UniformGrows ==
    pen.first_iter \/ Gt(pen.norm_e, Mul(pen.params.theta, pen.old_norm_e))

UniformCase ==
    /\ pc = "done"
    /\ pen.params.single_penalty_factor
    /\ Gt(pen.norm_e, pen.params.delta)

\* C8 as stated: in uniform mode with ||e|| > delta, a growing update sets
\* every component to min(Sigma_max, Delta Sigma_old(i)), for every
\* Sigma_old; otherwise Sigma = Sigma_old.
C8_UniformComponentwise ==
    UniformCase =>
        IF UniformGrows
        THEN \A i \in DOMAIN pen.Sigma :
                pen.Sigma[i] = MathMin(pen.params.Sigma_max,
                                       Mul(pen.Delta, pen.Sigma_old[i]))
        ELSE pen.Sigma = pen.Sigma_old

\* C8 (amended): in uniform mode with ||e|| > delta, a growing update sets
\* every component to min(Sigma_max, Delta Sigma_old(0)), the value computed
\* from the first component; this is min(Sigma_max, Delta Sigma_old(i)) when
\* Sigma_old is uniform.  Otherwise Sigma = Sigma_old.
C8_UniformFromFirst ==
    UniformCase =>
        IF UniformGrows
        THEN /\ \A i \in DOMAIN pen.Sigma :
                   pen.Sigma[i] = MathMin(pen.params.Sigma_max,
                                          Mul(pen.Delta, pen.Sigma_old[1]))
             /\ Uniform(pen.Sigma_old) =>
                   \A i \in DOMAIN pen.Sigma :
                      pen.Sigma[i] = MathMin(pen.params.Sigma_max,
                                             Mul(pen.Delta, pen.Sigma_old[i]))
        ELSE pen.Sigma = pen.Sigma_old

\* C8 witness: a growing uniform-mode update, not on the first iteration,
\* of a non-uniform Sigma_old, with the cap Sigma_max taking effect.
C8_Witness ==
    /\ UniformCase /\ UniformGrows /\ ~pen.first_iter
    /\ ~Uniform(pen.Sigma_old)
    /\ pen.Sigma[1] = pen.params.Sigma_max
    /\ Gt(Mul(pen.Delta, pen.Sigma_old[1]), pen.params.Sigma_max)

PerConstraintCase ==
    /\ pc = "done"
    /\ ~pen.params.single_penalty_factor
    /\ Gt(pen.norm_e, pen.params.delta)

\* The per-constraint growth test of component i.
ComponentGrows(i) ==
    pen.first_iter \/
        Gt(Abs(pen.e[i]), Mul(pen.params.theta, Abs(pen.old_e[i])))

\* min(Sigma_max, max(Delta |e(i)| / ||e||, 1) Sigma_old(i))
ComponentValue(i) ==
    MathMin(pen.params.Sigma_max,
            Mul(MathMax(Div(Mul(pen.Delta, Abs(pen.e[i])), pen.norm_e), R(1)),
                pen.Sigma_old[i]))

\* C9: in per-constraint mode with ||e|| > delta, component i becomes
\* min(Sigma_max, max(Delta |e(i)| / ||e||, 1) Sigma_old(i)) if first_iter or
\* |e(i)| > theta |old_e(i)|, and Sigma_old(i) otherwise; it is the value
\* the same call yields on the one-component vectors (e(i)), (old_e(i)),
\* (Sigma_old(i)), so no other component influences it.
C9_PerConstraint ==
    PerConstraintCase =>
        \A i \in DOMAIN pen.Sigma :
            /\ pen.Sigma[i] =
                  IF ComponentGrows(i) THEN ComponentValue(i)
                  ELSE pen.Sigma_old[i]
            /\ pen.Sigma[i] =
                  update_penalty_weights(pen.params, pen.Delta, pen.first_iter,
                      <<pen.e[i]>>, <<pen.old_e[i]>>, pen.norm_e,
                      pen.old_norm_e, <<pen.Sigma_old[i]>>)[1]

\* C9 witness: a per-constraint call, not on the first iteration, in which
\* one component grew by a factor above 1 and another, failing its own test,
\* was kept.
C9_Witness ==
    /\ PerConstraintCase /\ ~pen.first_iter
    /\ \E i, j \in DOMAIN pen.Sigma :
          /\ ComponentGrows(i)
          /\ Gt(pen.Sigma[i], pen.Sigma_old[i])
          /\ Lt(pen.Sigma[i], pen.params.Sigma_max)
          /\ ~ComponentGrows(j)
          /\ pen.Sigma[j] = pen.Sigma_old[j]

\* C10: whenever norm_e <= delta the output equals Sigma_old, in both modes
\* and also on the first iteration.
C10_SkipBelowTolerance ==
    (pc = "done" /\ Le(pen.norm_e, pen.params.delta)) =>
        pen.Sigma = pen.Sigma_old

\* C10 witness: a skipped first-iteration call with a positive norm_e, whose
\* growth test would otherwise have raised the penalty.
C10_Witness ==
    /\ pc = "done" /\ pen.first_iter
    /\ Le(pen.norm_e, pen.params.delta) /\ Gt(pen.norm_e, R(0))
    /\ Lt(Mul(pen.Delta, pen.Sigma_old[1]), pen.params.Sigma_max)
    /\ pen.Sigma = pen.Sigma_old

\* C23: update_penalty_weights never divides by zero: for every delta >= 0
\* and every input, whenever the per-constraint branch evaluates
\* Delta |e(i)| / norm_e the divisor norm_e is strictly positive.
C23_DivisorPositive ==
    (pc = "done" /\ Ge(pen.params.delta, R(0))) =>
        \A d \in pen.divisors : Gt(d, R(0))

\* A per-constraint update with delta = 0 that evaluated the division.
C23_Witness ==
    /\ pc = "done"
    /\ pen.params.delta = R(0)
    /\ ~pen.params.single_penalty_factor
    /\ pen.divisors # {}
    /\ \E i \in DOMAIN pen.Sigma : Gt(pen.Sigma[i], pen.Sigma_old[i])

----------------------------------------------------------------------------
(* detail::initialize_penalty and the penalty vector across ALM iterations *)

\* Largest number of update_penalty_weights calls after initialize_penalty.
MaxUpdates == 3

\* g0.squaredNorm(): the sum of the squares, each operation in real_t.
RECURSIVE squaredNorm(_)
squaredNorm(v) ==
    IF v = <<>> THEN R(0)
    ELSE Fl(Add(Fl(Mul(v[1], v[1])), squaredNorm(Tail(v))))

\* The penalty vector that initialize_penalty fills in (one entry per
\* component of g0, none when m = 0), given the values f0 = p.eval_f(x0) and
\* g0 = p.eval_g(x0) of the problem at x0.
initialize_penalty(f0, g0, params) ==
    LET num    == Fl(Mul(params.sigma0, StdMax(R(1), Abs(f0))))
        den    == StdMax(R(1), Fl(Mul(Q(1, 2), squaredNorm(g0))))
        sigma0 == Fl(Div(num, den))
        sigma1 == StdMax(sigma0, params.Sigma_min)
        sigma2 == StdMin(sigma1, params.Sigma_max)
    IN  [i \in DOMAIN g0 |-> sigma2]

\* (Sigma_min, Sigma_max) pairs; the last one is not an interval.
SigmaRanges ==
    {<<R(1), R(8)>>, <<R(2), R(2)>>, <<Q(1, 2), R(100)>>, <<R(4), R(2)>>}

Sigma0Vals ==
    {R(2)}

\* Values of f(x0) and of the components of g(x0); the last of each is a
\* finite value large enough for sigma0 |f(x0)|, resp. its square, to
\* overflow.
F0Vals ==
    {R(0), R(-3), R(20), R(-600)}

G0Vals ==
    {R(0), R(1), R(-2), R(40)}

\* Constraint violations and norms seen by the updates of an ALM run.
AlmEVals ==
    {R(-2), R(1)}

AlmOldEVals ==
    {R(-4)}

AlmNormVals ==
    {R(1), R(2)}

AlmInit ==
    /\ pc = "start"
    /\ \E m \in 1..MaxM, range \in SigmaRanges, sigma0 \in Sigma0Vals,
          single \in BOOLEAN, Delta \in DeltaVals, theta \in ThetaVals,
          delta \in DeltaTolVals :
          alm = [params  |-> [Sigma_min |-> range[1], Sigma_max |-> range[2],
                              sigma0 |-> sigma0, delta |-> delta,
                              theta |-> theta,
                              single_penalty_factor |-> single],
                 Delta   |-> Delta,
                 Sigma   |-> [i \in 1..m |-> R(0)],
                 updates |-> 0]
    /\ prj = Idle /\ pen = Idle /\ ev = Idle
    /\ par = Idle /\ thr = Idle
    /\ cutest = Idle

\* Sigma is set from the problem's values at the initial point.
InitializePenalty ==
    /\ pc = "start"
    /\ \E f0 \in F0Vals, g0 \in [DOMAIN alm.Sigma -> G0Vals] :
          alm' = [alm EXCEPT !.Sigma = initialize_penalty(f0, g0, alm.params)]
    /\ pc' = "alm"
    /\ UNCHANGED <<prj, pen, ev, par, thr, cutest>>

\* One penalty update of an outer iteration; the current Sigma is Sigma_old.
UpdatePenalty ==
    /\ pc = "alm"
    /\ alm.updates < MaxUpdates
    /\ \E e \in [DOMAIN alm.Sigma -> AlmEVals],
          old_e \in [DOMAIN alm.Sigma -> AlmOldEVals],
          norm_e \in AlmNormVals, old_norm_e \in OldNormVals,
          first_iter \in BOOLEAN :
          alm' = [alm EXCEPT
                     !.Sigma = update_penalty_weights(alm.params, alm.Delta,
                                   first_iter, e, old_e, norm_e, old_norm_e,
                                   alm.Sigma),
                     !.updates = @ + 1]
    /\ UNCHANGED <<pc, prj, pen, ev, par, thr, cutest>>

Next ==
    \/ InitializePenalty
    \/ UpdatePenalty

Spec ==
    AlmInit /\ [][Next]_vars

\* C2: with Sigma_min <= Sigma_max, after initialize_penalty and any number
\* of update_penalty_weights calls every component of Sigma lies in
\* [Sigma_min, Sigma_max].
C2_SigmaInRange ==
    (pc = "alm" /\ Le(alm.params.Sigma_min, alm.params.Sigma_max)) =>
        \A i \in DOMAIN alm.Sigma :
            /\ Le(alm.params.Sigma_min, alm.Sigma[i])
            /\ Le(alm.Sigma[i], alm.params.Sigma_max)

\* C1, consequence for a run: with Sigma_min <= Sigma_max, no update lowers
\* a component of a Sigma that is free of NaN.
C1_RunNonDecreasing ==
    [][(pc = "alm" /\ Le(alm.params.Sigma_min, alm.params.Sigma_max)
          /\ NoNaN(alm.Sigma)) =>
          \A i \in DOMAIN alm.Sigma : Ge(alm.Sigma[i]', alm.Sigma[i])]_vars

\* C2 witness: after two or more updates in per-constraint mode one
\* component has been capped at Sigma_max while another is still strictly
\* inside (Sigma_min, Sigma_max).
C2_Witness ==
    /\ pc = "alm" /\ alm.updates >= 2
    /\ Lt(alm.params.Sigma_min, alm.params.Sigma_max)
    /\ ~alm.params.single_penalty_factor
    /\ \E i, j \in DOMAIN alm.Sigma :
          /\ alm.Sigma[i] = alm.params.Sigma_max
          /\ Lt(alm.params.Sigma_min, alm.Sigma[j])
          /\ Lt(alm.Sigma[j], alm.params.Sigma_max)

\* C22: in uniform mode, starting from the Sigma produced by
\* initialize_penalty, after any sequence of update_penalty_weights calls
\* with single_penalty_factor = true all components of Sigma are equal to
\* each other in every reachable state.
C22_UniformInvariant ==
    (pc = "alm" /\ alm.params.single_penalty_factor) => Uniform(alm.Sigma)

\* Two uniform updates have been made on a Sigma of several components that
\* lies strictly inside the interval.
C22_Witness ==
    /\ pc = "alm" /\ alm.params.single_penalty_factor
    /\ alm.updates >= 2
    /\ Len(alm.Sigma) >= 2
    /\ Lt(alm.params.Sigma_min, alm.Sigma[1])
    /\ Lt(alm.Sigma[1], alm.params.Sigma_max)

\* initialize_penalty on its own, for every m >= 0 and for values of f(x0)
\* and g(x0) that include overflowing and non-finite ones.
IniSigma0Vals ==
    {R(2), Q(1, 100)}

IniF0Vals ==
    {R(0), R(-3), R(20), R(600), PInf, NaN}

IniG0Vals ==
    {R(0), R(1), R(-2), R(40), NInf, NaN}

IniInit ==
    /\ pc = "initialize_penalty"
    /\ \E m \in 0..MaxM :
       \E range \in SigmaRanges, sigma0 \in IniSigma0Vals,
          f0 \in IniF0Vals, g0 \in [1..m -> IniG0Vals] :
          alm = [params |-> [Sigma_min |-> range[1], Sigma_max |-> range[2],
                             sigma0 |-> sigma0],
                 f0     |-> f0,
                 g0     |-> g0,
                 Sigma  |-> [i \in 1..m |-> R(0)]]
    /\ prj = Idle /\ pen = Idle /\ ev = Idle
    /\ par = Idle /\ thr = Idle
    /\ cutest = Idle

Call_initialize_penalty ==
    /\ pc = "initialize_penalty"
    /\ alm' = [alm EXCEPT !.Sigma = initialize_penalty(alm.f0, alm.g0, alm.params)]
    /\ pc' = "initialized"
    /\ UNCHANGED <<prj, pen, ev, par, thr, cutest>>

IniNext ==
    Call_initialize_penalty

SpecInit ==
    IniInit /\ [][IniNext]_vars

\* The sum of the squares of finite reals, exactly.
RECURSIVE SumSq(_)
SumSq(v) ==
    IF v = <<>> THEN R(0)
    ELSE Add(Mul(v[1], v[1]), SumSq(Tail(v)))

\* clamp(sigma0 max(1, |f0|) / max(1, 1/2 ||g0||^2), Sigma_min, Sigma_max)
\* for finite f0 and g0, with clamp(v, lo, hi) = min(max(v, lo), hi).
SigmaFormula ==
    LET sigma == Div(Mul(alm.params.sigma0, MathMax(R(1), Abs(alm.f0))),
                     MathMax(R(1), Mul(Q(1, 2), SumSq(alm.g0))))
    IN  MathMin(MathMax(sigma, alm.params.Sigma_min), alm.params.Sigma_max)

FiniteInputs ==
    IsFinite(alm.f0) /\ \A i \in DOMAIN alm.g0 : IsFinite(alm.g0[i])

\* C11: for every finite f(x0) and g(x0) and every m >= 0,
\* initialize_penalty sets every component of Sigma to the same value
\* clamp(sigma0 max(1, |f(x0)|) / max(1, 1/2 ||g(x0)||^2), Sigma_min,
\* Sigma_max); for Sigma_min <= Sigma_max every component lies in
\* [Sigma_min, Sigma_max].
C11_InitializePenaltyClamped ==
    (pc = "initialized" /\ FiniteInputs) =>
        /\ Uniform(alm.Sigma)
        /\ \A i \in DOMAIN alm.Sigma : alm.Sigma[i] = SigmaFormula
        /\ Le(alm.params.Sigma_min, alm.params.Sigma_max) =>
              \A i \in DOMAIN alm.Sigma :
                 /\ Le(alm.params.Sigma_min, alm.Sigma[i])
                 /\ Le(alm.Sigma[i], alm.params.Sigma_max)

\* What the code guarantees, for non-finite f(x0) and g(x0) as well: Sigma
\* is uniform and, for Sigma_min <= Sigma_max, inside [Sigma_min, Sigma_max]
\* whenever the quotient is not NaN, that is unless numerator and
\* denominator are both infinite.
QuotientIsNaN ==
    LET num == Fl(Mul(alm.params.sigma0, StdMax(R(1), Abs(alm.f0))))
        den == StdMax(R(1), Fl(Mul(Q(1, 2), squaredNorm(alm.g0))))
    IN  ~IsFinite(num) /\ ~IsFinite(den)

C11_ClampedUnlessNaN ==
    (pc = "initialized" /\ ~QuotientIsNaN) =>
        /\ Uniform(alm.Sigma)
        /\ Le(alm.params.Sigma_min, alm.params.Sigma_max) =>
              \A i \in DOMAIN alm.Sigma :
                 /\ Le(alm.params.Sigma_min, alm.Sigma[i])
                 /\ Le(alm.Sigma[i], alm.params.Sigma_max)

\* The failing case of C11: finite f(x0) and g(x0), Sigma_min < Sigma_max,
\* and a NaN penalty.
C11_NaNPenalty ==
    /\ pc = "initialized" /\ FiniteInputs
    /\ Lt(alm.params.Sigma_min, alm.params.Sigma_max)
    /\ \E i \in DOMAIN alm.Sigma : IsNaN(alm.Sigma[i])

----------------------------------------------------------------------------
(* Problem: basic and composite evaluations (util/problem.cpp)             *)
(*                                                                         *)
(* An evaluation takes the machine state s and yields the state after the  *)
(* call.  s.prob is the problem at the point x: its dimensions, the values *)
(* f(x), grad f(x), g(x), the Jacobian of g at x and the box D.  s.buf     *)
(* holds the vector arguments and output buffers by name, s.ret the value  *)
(* returned last, s.trace the basic evaluations invoked so far, s.reads    *)
(* and s.writes the vectors read and written.                              *)

\* Number of decision variables n of the modelled problems.
NDim == 2

\* sum over i of J[i][k] * v[i]
RECURSIVE ColDot(_, _, _, _)
ColDot(J, v, k, i) ==
    IF i = 0 THEN R(0)
    ELSE Add(ColDot(J, v, k, i - 1), Mul(J[i][k], v[i]))

VAdd(a, b) ==
    [k \in DOMAIN a |-> Add(a[k], b[k])]

RECURSIVE Dot(_, _)
Dot(a, b) ==
    IF a = <<>> THEN R(0)
    ELSE Add(Mul(a[1], b[1]), Dot(Tail(a), Tail(b)))

\* The names of the evaluation counters (members of EvalCounter).
Counters ==
    {"f", "grad_f", "f_grad_f", "f_g", "f_grad_f_g", "grad_f_grad_g_prod",
     "g", "grad_g_prod", "grad_gi", "grad_L", "hess_L_prod", "hess_L",
     "psi", "grad_psi", "grad_psi_from_yhat", "psi_grad_psi"}

\* The basic evaluations, whose defaults throw not_implemented_error.
Basic ==
    {"eval_f", "eval_grad_f", "eval_g", "eval_grad_g_prod", "eval_grad_gi",
     "eval_hess_L_prod", "eval_hess_L"}

NoError ==
    "none"

\* An exception is propagating: every statement up to the caller that
\* catches it is skipped.
Thrown(s) ==
    s.err # NoError

\* throw not_implemented_error(what)
Throw(s, what) ==
    [s EXCEPT !.err = what]

\* The virtual call of an evaluation enters ProblemWithCounters first when
\* the problem is wrapped: ++evaluations.c, then the evaluation of ProblemT.
Count(s, c) ==
    IF s.prob.counted THEN [s EXCEPT !.evaluations[c] = Incremented(@)] ELSE s

\* A basic evaluation is invoked.  s.prob.missing maps each basic evaluation
\* the problem does not provide to the message of the not_implemented_error
\* that calling it throws.
Invoked(s, c, name) ==
    [Count(s, c) EXCEPT !.trace = Append(@, name),
                        !.clock = @ + s.prob.ticks]

\* Faulty variant of Timed: the elapsed time is added whether or not f
\* throws.
Timed_also_when_thrown(before, c, after) ==
    IF ~before.prob.counted THEN after
    ELSE [after EXCEPT !.time[c] = @ + (after.clock - before.clock)]

\* timed(time, f) of ProblemWithCounters: t0 = now(); f(); t1 = now();
\* time += t1 - t0.  When f throws, the addition is not reached.  before is
\* the state at the call, after the state when f has ended.
Timed(before, c, after) ==
    IF ~before.prob.counted \/ Thrown(after) THEN after
    ELSE [after EXCEPT !.time[c] = @ + (after.clock - before.clock)]

Missing(s, name) ==
    name \in DOMAIN s.prob.missing

\* Faulty variant of eval_f: the default returns 0 instead of throwing.
eval_f_default_returns(s) ==
    IF Thrown(s) THEN s
    ELSE Timed(s, "f",
         (LET s0 == Invoked(s, "f", "eval_f")
          IN  IF Missing(s, "eval_f") THEN [s0 EXCEPT !.ret = R(0)]
              ELSE [s0 EXCEPT !.ret = s.prob.f]))

\* The basic evaluations: the problem's own when it provides them, the
\* throwing defaults of Problem otherwise.
eval_f(s) ==
    IF Thrown(s) THEN s
    ELSE Timed(s, "f",
         (LET s0 == Invoked(s, "f", "eval_f")
          IN  IF Missing(s, "eval_f") THEN Throw(s0, s.prob.missing["eval_f"])
              ELSE [s0 EXCEPT !.ret = s.prob.f]))

eval_grad_f(s, grad_fx) ==
    IF Thrown(s) THEN s
    ELSE Timed(s, "grad_f",
         (LET s0 == Invoked(s, "grad_f", "eval_grad_f")
          IN  IF Missing(s, "eval_grad_f")
              THEN Throw(s0, s.prob.missing["eval_grad_f"])
              ELSE [s0 EXCEPT !.writes = @ \cup {grad_fx},
                              !.buf[grad_fx] = s.prob.grad_f]))

eval_g(s, gx) ==
    IF Thrown(s) THEN s
    ELSE Timed(s, "g",
         (LET s0 == Invoked(s, "g", "eval_g")
          IN  IF Missing(s, "eval_g") THEN Throw(s0, s.prob.missing["eval_g"])
              ELSE [s0 EXCEPT !.writes = @ \cup {gx},
                              !.buf[gx] = s.prob.g]))

eval_grad_g_prod(s, y, grad_gxy) ==
    IF Thrown(s) THEN s
    ELSE Timed(s, "grad_g_prod",
         (LET s0 == Invoked(s, "grad_g_prod", "eval_grad_g_prod")
          IN  IF Missing(s, "eval_grad_g_prod")
              THEN Throw(s0, s.prob.missing["eval_grad_g_prod"])
              ELSE [s0 EXCEPT !.reads = @ \cup {y},
                              !.writes = @ \cup {grad_gxy},
                              !.buf[grad_gxy] =
                                  [k \in 1..s.prob.n |->
                                      ColDot(s.prob.J, s.buf[y], k, Len(s.buf[y]))]]))

\* The exception of a generated function whose evaluation fails.
GradGFailed ==
    "grad_g failed"

\* The gradient of constraint i (1 <= i <= m).  A problem loaded from CasADi
\* computes it as grad_g(x, w) with its scratch vector w set to the i-th unit
\* vector for the call: w(i) = 1; grad_g(x, w, g); w(i) = 0.  When grad_g
\* raises (s.prob.grad_g_raises), the exception leaves the closure before
\* w(i) = 0.
eval_grad_gi(s, i, grad_gi) ==
    IF Thrown(s) THEN s
    ELSE Timed(s, "grad_gi",
         (LET s0 == Invoked(s, "grad_gi", "eval_grad_gi")
          IN  IF Missing(s, "eval_grad_gi")
              THEN Throw(s0, s.prob.missing["eval_grad_gi"])
              ELSE IF s.prob.loader = "casadi" THEN
                  LET w == [s.prob.w EXCEPT ![i] = R(1)]
                  IN  IF s.prob.grad_g_raises
                      THEN Throw([s0 EXCEPT !.prob.w = w], GradGFailed)
                      ELSE
                      [s0 EXCEPT !.writes = @ \cup {grad_gi},
                                 !.buf[grad_gi] =
                                     [k \in 1..s.prob.n |->
                                         ColDot(s.prob.J, w, k, Len(w))],
                                 !.prob.w = [w EXCEPT ![i] = R(0)]]
              ELSE [s0 EXCEPT !.writes = @ \cup {grad_gi},
                              !.buf[grad_gi] = s.prob.J[i]]))

\* Hv = (Hessian of the Lagrangian at (x, y)) v
eval_hess_L_prod(s, y, v, Hv) ==
    IF Thrown(s) THEN s
    ELSE Timed(s, "hess_L_prod",
         (LET s0 == Invoked(s, "hess_L_prod", "eval_hess_L_prod")
          IN  IF Missing(s, "eval_hess_L_prod")
              THEN Throw(s0, s.prob.missing["eval_hess_L_prod"])
              ELSE [s0 EXCEPT !.reads = @ \cup {y, v},
                              !.writes = @ \cup {Hv},
                              !.buf[Hv] =
                                  [k \in 1..s.prob.n |->
                                      Dot(s.prob.hess_L[k], s.buf[v])]]))

eval_hess_L(s, y, H) ==
    IF Thrown(s) THEN s
    ELSE Timed(s, "hess_L",
         (LET s0 == Invoked(s, "hess_L", "eval_hess_L")
          IN  IF Missing(s, "eval_hess_L")
              THEN Throw(s0, s.prob.missing["eval_hess_L"])
              ELSE [s0 EXCEPT !.reads = @ \cup {y},
                              !.writes = @ \cup {H},
                              !.buf[H] = s.prob.hess_L]))

\* The default composite evaluations of Problem.
eval_f_grad_f(s, grad_fx) ==
    IF Thrown(s) THEN s
    ELSE Timed(s, "f_grad_f",
         (eval_f(eval_grad_f(Count(s, "f_grad_f"), grad_fx))))

\* Faulty variant of eval_f_g: f is evaluated before g.
eval_f_g_f_first(s, g) ==
    IF Thrown(s) THEN s
    ELSE Timed(s, "f_g",
         (LET s1 == eval_f(Count(s, "f_g"))
              s2 == eval_g(s1, g)
          IN  IF Thrown(s2) THEN s2 ELSE [s2 EXCEPT !.ret = s1.ret]))

eval_f_g(s, g) ==
    IF Thrown(s) THEN s
    ELSE Timed(s, "f_g",
         (eval_f(eval_g(Count(s, "f_g"), g))))

eval_f_grad_f_g(s, grad_fx, g) ==
    IF Thrown(s) THEN s
    ELSE Timed(s, "f_grad_f_g",
         (eval_f_grad_f(eval_g(Count(s, "f_grad_f_g"), g), grad_fx)))

eval_grad_f_grad_g_prod(s, y, grad_f, grad_gxy) ==
    IF Thrown(s) THEN s
    ELSE Timed(s, "grad_f_grad_g_prod",
         (eval_grad_g_prod(eval_grad_f(Count(s, "grad_f_grad_g_prod"), grad_f),
                           y, grad_gxy)))

\* Faulty variant of eval_grad_L: the Lagrangian gradient is assembled from
\* the gradients of the constraints one by one.
eval_grad_L_by_grad_gi(s, y, grad_L, work_n) ==
    IF Thrown(s) THEN s
    ELSE Timed(s, "grad_L",
         (LET s1 == eval_grad_f(Count(s, "grad_L"), grad_L)
              s2 == IF s.prob.m = 0 THEN s1 ELSE eval_grad_gi(s1, 1, work_n)
          IN  IF Thrown(s2) THEN s2
              ELSE [s2 EXCEPT !.reads = @ \cup {y, grad_L, work_n},
                              !.writes = @ \cup {grad_L},
                              !.buf[grad_L] =
                                  [k \in 1..s.prob.n |->
                                      Add(s2.buf[grad_L][k],
                                          ColDot(s.prob.J, s.buf[y], k,
                                                 Len(s.buf[y])))]]))

\* Faulty variant of eval_grad_L: the default calls the gradient evaluations
\* of the base class directly, past the counting wrapper.
eval_grad_L_uncounted(s, y, grad_L, work_n) ==
    IF Thrown(s) THEN s
    ELSE Timed(s, "grad_L",
         (LET s0 == Count(s, "grad_L")
              s1 == eval_grad_f_grad_g_prod([s0 EXCEPT !.prob.counted = FALSE],
                                            y, grad_L, work_n)
              s2 == [s1 EXCEPT !.prob.counted = s.prob.counted]
          IN  IF Thrown(s2) THEN s2
              ELSE [s2 EXCEPT !.reads = @ \cup {grad_L, work_n},
                              !.writes = @ \cup {grad_L},
                              !.buf[grad_L] = VAdd(s2.buf[grad_L], s2.buf[work_n])]))

\* grad_L = grad f(x) + grad g(x) y
eval_grad_L(s, y, grad_L, work_n) ==
    IF Thrown(s) THEN s
    ELSE Timed(s, "grad_L",
         (LET s1 == eval_grad_f_grad_g_prod(Count(s, "grad_L"), y, grad_L, work_n)
          IN  IF Thrown(s1) THEN s1
              ELSE [s1 EXCEPT !.reads = @ \cup {grad_L, work_n},
                              !.writes = @ \cup {grad_L},
                              !.buf[grad_L] = VAdd(s1.buf[grad_L], s1.buf[work_n])]))

\* Box projection helpers of box.hpp: project(v, B) = min(max(v, lower),
\* upper) and projecting_difference(v, B) = v - project(v, B).
project(v, lower, upper) ==
    [i \in DOMAIN v |-> StdMin(StdMax(v[i], lower[i]), upper[i])]

projecting_difference(v, lower, upper) ==
    LET p == project(v, lower, upper)
    IN  [i \in DOMAIN v |-> Sub(v[i], p[i])]

\* sum over i <= k of d(i) * Sigma(i) * d(i), accumulated as the loop does
RECURSIVE WeightedSq(_, _, _)
WeightedSq(d, Sigma, k) ==
    IF k = 0 THEN R(0)
    ELSE Add(WeightedSq(d, Sigma, k - 1), Mul(Mul(d[k], Sigma[k]), d[k]))

\* Faulty variant of calc_yhat_dTyhat: the multipliers are not scaled by the inverse
\* penalty, zeta = g(x) + y.
calc_yhat_dTyhat_unscaled(s, g_yhat, y, Sigma) ==
    IF Thrown(s) THEN s
    ELSE
    LET g   == s.buf[g_yhat]
        yv  == s.buf[y]
        Sg  == s.buf[Sigma]
        s1  == [s EXCEPT !.reads = @ \cup {g_yhat, y, Sigma},
                         !.writes = @ \cup {g_yhat}]
        zeta == [i \in DOMAIN g |-> Add(g[i], yv[i])]
        d    == projecting_difference(zeta, s.prob.D.lowerbound,
                                      s.prob.D.upperbound)
    IN  [s1 EXCEPT !.ret = WeightedSq(d, Sg, s.prob.m),
                   !.buf[g_yhat] = [i \in DOMAIN d |-> Mul(Sg[i], d[i])]]

\* Faulty variant of calc_yhat_dTyhat: the scalar branch returns d'd, without
\* the penalty factor.
calc_yhat_dTyhat_scalar_unweighted(s, g_yhat, y, Sigma) ==
    IF Thrown(s) THEN s
    ELSE
    LET g   == s.buf[g_yhat]
        yv  == s.buf[y]
        Sg  == s.buf[Sigma]
        s1  == [s EXCEPT !.reads = @ \cup {g_yhat, y, Sigma},
                         !.writes = @ \cup {g_yhat}]
    IN  IF Len(Sg) = 1 THEN
            LET zeta == [i \in DOMAIN g |->
                            Add(g[i], Mul(Div(R(1), Sg[1]), yv[i]))]
                d    == projecting_difference(zeta, s.prob.D.lowerbound,
                                              s.prob.D.upperbound)
            IN  [s1 EXCEPT !.ret = Dot(d, d),
                           !.buf[g_yhat] = [i \in DOMAIN d |-> Mul(d[i], Sg[1])]]
        ELSE
            LET zeta == [i \in DOMAIN g |->
                            Add(g[i], Mul(Div(R(1), Sg[i]), yv[i]))]
                d    == projecting_difference(zeta, s.prob.D.lowerbound,
                                              s.prob.D.upperbound)
            IN  [s1 EXCEPT !.ret = WeightedSq(d, Sg, s.prob.m),
                           !.buf[g_yhat] =
                               [i \in DOMAIN d |->
                                   IF i <= s.prob.m THEN Mul(Sg[i], d[i])
                                   ELSE d[i]]]

\* g_yhat holds g(x) on entry and yhat on return; the value returned is
\* d'yhat.
calc_yhat_dTyhat(s, g_yhat, y, Sigma) ==
    IF Thrown(s) THEN s
    ELSE
    LET g   == s.buf[g_yhat]
        yv  == s.buf[y]
        Sg  == s.buf[Sigma]
        s1  == [s EXCEPT !.reads = @ \cup {g_yhat, y, Sigma},
                         !.writes = @ \cup {g_yhat}]
    IN  IF Len(Sg) = 1 THEN
            LET zeta == [i \in DOMAIN g |->
                            Add(g[i], Mul(Div(R(1), Sg[1]), yv[i]))]
                d    == projecting_difference(zeta, s.prob.D.lowerbound,
                                              s.prob.D.upperbound)
            IN  [s1 EXCEPT !.ret = Mul(Sg[1], Dot(d, d)),
                           !.buf[g_yhat] = [i \in DOMAIN d |-> Mul(d[i], Sg[1])]]
        ELSE
            LET zeta == [i \in DOMAIN g |->
                            Add(g[i], Mul(Div(R(1), Sg[i]), yv[i]))]
                d    == projecting_difference(zeta, s.prob.D.lowerbound,
                                              s.prob.D.upperbound)
            IN  [s1 EXCEPT !.ret = WeightedSq(d, Sg, s.prob.m),
                           !.buf[g_yhat] =
                               [i \in DOMAIN d |->
                                   IF i <= s.prob.m THEN Mul(Sg[i], d[i])
                                   ELSE d[i]]]

eval_psi_yhat(s, y, Sigma, yhat) ==
    IF Thrown(s) THEN s
    ELSE Timed(s, "psi",
         (LET s0 == Count(s, "psi")
          IN  IF s.prob.m = 0 THEN eval_f(s0)
              ELSE
                  LET s1 == eval_f_g(s0, yhat)
                      s2 == calc_yhat_dTyhat(s1, yhat, y, Sigma)
                  IN  IF Thrown(s2) THEN s2
                      ELSE [s2 EXCEPT !.ret = Add(s1.ret, Mul(Q(1, 2), s2.ret))]))

eval_grad_psi_from_yhat(s, yhat, grad_psi, work_n) ==
    IF Thrown(s) THEN s
    ELSE Timed(s, "grad_psi_from_yhat",
         (LET s0 == Count(s, "grad_psi_from_yhat")
          IN  IF s.prob.m = 0 THEN eval_grad_f(s0, grad_psi)
              ELSE eval_grad_L(s0, yhat, grad_psi, work_n)))

\* Faulty variant of eval_grad_psi: no shortcut for m = 0.
eval_grad_psi_noshortcut(s, y, Sigma, grad_psi, work_n, work_m) ==
    IF Thrown(s) THEN s
    ELSE Timed(s, "grad_psi",
         (LET s0 == Count(s, "grad_psi")
              s1 == eval_g(s0, work_m)
              s2 == calc_yhat_dTyhat(s1, work_m, y, Sigma)
          IN  eval_grad_L([s2 EXCEPT !.ret = s.ret], work_m, grad_psi, work_n)))

eval_grad_psi(s, y, Sigma, grad_psi, work_n, work_m) ==
    IF Thrown(s) THEN s
    ELSE Timed(s, "grad_psi",
         (LET s0 == Count(s, "grad_psi")
          IN  IF s.prob.m = 0 THEN eval_grad_f(s0, grad_psi)
              ELSE
                  LET s1 == eval_g(s0, work_m)
                      s2 == calc_yhat_dTyhat(s1, work_m, y, Sigma)
                  IN  eval_grad_psi_from_yhat([s2 EXCEPT !.ret = s.ret], work_m,
                                              grad_psi, work_n)))

\* The reference implementation that is compiled out (#if 0).
eval_psi_grad_psi_reference(s, y, Sigma, grad_psi, work_n, work_m) ==
    IF Thrown(s) THEN s
    ELSE Timed(s, "psi_grad_psi",
         (LET s1 == eval_psi_yhat(Count(s, "psi_grad_psi"), y, Sigma, work_m)
              s2 == eval_grad_psi_from_yhat(s1, work_m, grad_psi, work_n)
          IN  IF Thrown(s2) THEN s2 ELSE [s2 EXCEPT !.ret = s1.ret]))

\* Faulty variant of eval_psi_grad_psi: the gradient of the Lagrangian is taken at
\* the multipliers y instead of yhat.
eval_psi_grad_psi_at_y(s, y, Sigma, grad_psi, work_n, work_m) ==
    IF Thrown(s) THEN s
    ELSE Timed(s, "psi_grad_psi",
         (LET s0 == Count(s, "psi_grad_psi")
          IN  IF s.prob.m = 0 THEN eval_f_grad_f(s0, grad_psi)
              ELSE
                  LET s1 == eval_f_g(s0, work_m)
                      s2 == calc_yhat_dTyhat(s1, work_m, y, Sigma)
                      psi == Add(s1.ret, Mul(Q(1, 2), s2.ret))
                      s3 == eval_grad_L(s2, y, grad_psi, work_n)
                  IN  IF Thrown(s3) THEN s3 ELSE [s3 EXCEPT !.ret = psi]))

\* The implementation that is compiled in.
eval_psi_grad_psi(s, y, Sigma, grad_psi, work_n, work_m) ==
    IF Thrown(s) THEN s
    ELSE Timed(s, "psi_grad_psi",
         (LET s0 == Count(s, "psi_grad_psi")
          IN  IF s.prob.m = 0 THEN eval_f_grad_f(s0, grad_psi)
              ELSE
                  LET s1 == eval_f_g(s0, work_m)
                      s2 == calc_yhat_dTyhat(s1, work_m, y, Sigma)
                      psi == Add(s1.ret, Mul(Q(1, 2), s2.ret))
                      s3 == eval_grad_L(s2, work_m, grad_psi, work_n)
                  IN  IF Thrown(s3) THEN s3 ELSE [s3 EXCEPT !.ret = psi]))

\* CasADiProblem overrides: both call the generated function psi_grad_psi
\* with (x, param, y, Sigma, D.lowerbound, D.upperbound); eval_grad_psi
\* discards the value psi.  s.prob.casadi holds the outputs of the generated
\* functions at these arguments.
\* Faulty variant of CasADi_eval_grad_psi: the specialised generated function
\* grad_psi is called (the branch that is compiled out).
CasADi_eval_grad_psi_specialised(s, y, Sigma, grad_psi) ==
    Timed(s, "grad_psi",
      ([Count(s, "grad_psi") EXCEPT
           !.clock = @ + s.prob.ticks,
           !.trace = Append(@, "casadi:grad_psi"),
           !.reads = @ \cup {y, Sigma},
           !.writes = @ \cup {grad_psi},
           !.buf[grad_psi] = s.prob.casadi.grad_psi]))

CasADi_eval_grad_psi(s, y, Sigma, grad_psi) ==
    Timed(s, "grad_psi",
      ([Count(s, "grad_psi") EXCEPT
           !.clock = @ + s.prob.ticks,
           !.trace = Append(@, "casadi:psi_grad_psi"),
           !.reads = @ \cup {y, Sigma},
           !.writes = @ \cup {grad_psi},
           !.buf[grad_psi] = s.prob.casadi.psi_grad_psi.grad]))

CasADi_eval_psi_grad_psi(s, y, Sigma, grad_psi) ==
    Timed(s, "psi_grad_psi",
      ([Count(s, "psi_grad_psi") EXCEPT
           !.clock = @ + s.prob.ticks,
           !.trace = Append(@, "casadi:psi_grad_psi"),
           !.reads = @ \cup {y, Sigma},
           !.writes = @ \cup {grad_psi},
           !.buf[grad_psi] = s.prob.casadi.psi_grad_psi.grad,
           !.ret = s.prob.casadi.psi_grad_psi.psi]))

\* Problem data and arguments of the evaluations that are explored.
FVals ==
    {R(3), R(-1)}

GradFVals ==
    {[k \in 1..NDim |-> R(k - 3)]}

GVals ==
    {R(-2), R(3)}

JacVals(m) ==
    {[i \in 1..m |-> [k \in 1..NDim |-> R(i + k - 2)]],
     [i \in 1..m |-> [k \in 1..NDim |-> R(-2)]]}

DBounds ==
    {<<NInf, R(1)>>, <<R(-1), R(1)>>, <<R(0), PInf>>}

MultVals ==
    {R(-1), R(2)}

PenaltyVals ==
    {Q(1, 2), R(2)}

CasADiOutVals ==
    {[k \in 1..NDim |-> R(1)], [k \in 1..NDim |-> R(-3)]}

NoCasADi ==
    [psi_grad_psi |-> [psi |-> R(0), grad |-> [k \in 1..NDim |-> R(0)]],
     grad_psi     |-> [k \in 1..NDim |-> R(0)]]

\* Content of the output buffers before an evaluation writes them.
Unwritten(len) ==
    [i \in 1..len |-> R(7)]

\* The machine state before any evaluation: arguments y and Sigma in place,
\* output buffers unwritten.
Fresh(prob, y, Sigma) ==
    [prob   |-> prob,
     buf    |-> [y |-> y, Sigma |-> Sigma,
                 yhat |-> Unwritten(prob.m), work_m |-> Unwritten(prob.m),
                 grad_psi |-> Unwritten(prob.n), work_n |-> Unwritten(prob.n),
                 g |-> Unwritten(prob.m), grad_f |-> Unwritten(prob.n),
                 grad_gi |-> Unwritten(prob.n), v |-> prob.grad_f,
                 Hv |-> Unwritten(prob.n),
                 H |-> [k \in 1..prob.n |-> Unwritten(prob.n)],
                 i |-> 0],
     ret    |-> R(0),
     err    |-> NoError,
     caught |-> {},
     returned |-> 0,
     evaluations |-> [c \in Counters |-> CounterZero],
     time   |-> [c \in Counters |-> 0],
     clock  |-> 0,
     trace  |-> <<>>,
     reads  |-> {},
     writes |-> {}]

\* The basic evaluations that a problem providing only f, grad f, g and
\* grad g . y leaves to the defaults of Problem, with the messages of their
\* not_implemented_error.
DefaultsOf(names) ==
    [name \in names |-> name]

MinimalProblemMissing ==
    DefaultsOf({"eval_grad_gi", "eval_hess_L_prod", "eval_hess_L"})

\* Hessian of the Lagrangian at (x, y) of the modelled problems.
HessVal ==
    [k \in 1..NDim |-> [l \in 1..NDim |-> R(k + l)]]

EvInit ==
    /\ pc = "eval"
    /\ \E m \in 0..MaxM :
       \E f \in FVals, grad_f \in GradFVals, g \in [1..m -> GVals],
          J \in JacVals(m), D \in [1..m -> DBounds],
          y \in [1..m -> MultVals], Sigma \in [1..m -> PenaltyVals] :
          ev = Fresh([n |-> NDim, m |-> m, f |-> f, grad_f |-> grad_f,
                      g |-> g, J |-> J,
                      D |-> [lowerbound |-> [i \in 1..m |-> D[i][1]],
                             upperbound |-> [i \in 1..m |-> D[i][2]]],
                      hess_L |-> HessVal,
                      missing |-> MinimalProblemMissing,
                      counted |-> FALSE,
                      loader |-> "user",
                      ticks |-> 1,
                      grad_g_raises |-> FALSE,
                      w |-> [i \in 1..m |-> R(0)],
                      casadi |-> NoCasADi],
                     y, Sigma)
    /\ prj = Idle /\ pen = Idle /\ alm = Idle
    /\ par = Idle /\ thr = Idle
    /\ cutest = Idle

Call_eval_psi_yhat ==
    /\ pc = "eval"
    /\ ev' = eval_psi_yhat(ev, "y", "Sigma", "yhat")
    /\ pc' = "psi_yhat"
    /\ UNCHANGED <<prj, pen, alm, par, thr, cutest>>

\* The second half of the pair: the gradient from the yhat just computed.
Call_eval_grad_psi_from_yhat ==
    /\ pc = "psi_yhat"
    /\ ev' = eval_grad_psi_from_yhat(ev, "yhat", "grad_psi", "work_n")
    /\ pc' = "grad_psi_from_yhat"
    /\ UNCHANGED <<prj, pen, alm, par, thr, cutest>>

Call_eval_grad_psi ==
    /\ pc = "eval"
    /\ ev' = eval_grad_psi(ev, "y", "Sigma", "grad_psi", "work_n", "work_m")
    /\ pc' = "grad_psi"
    /\ UNCHANGED <<prj, pen, alm, par, thr, cutest>>

Call_eval_psi_grad_psi ==
    /\ pc = "eval"
    /\ ev' = eval_psi_grad_psi(ev, "y", "Sigma", "grad_psi", "work_n", "work_m")
    /\ pc' = "psi_grad_psi"
    /\ UNCHANGED <<prj, pen, alm, par, thr, cutest>>

\* The problem is a CasADiProblem: its generated functions take the place
\* of the user-supplied evaluations.
LoadCasADiProblem ==
    /\ pc = "eval"
    /\ \E f \in FVals, grad \in CasADiOutVals, grad_only \in CasADiOutVals :
          ev' = [ev EXCEPT
                    !.prob.f = R(0),
                    !.prob.grad_f = [k \in 1..NDim |-> R(0)],
                    !.prob.g = [i \in 1..ev.prob.m |-> R(0)],
                    !.prob.J = [i \in 1..ev.prob.m |-> [k \in 1..NDim |-> R(0)]],
                    !.prob.casadi = [psi_grad_psi |-> [psi |-> f, grad |-> grad],
                                     grad_psi |-> grad_only]]
    /\ pc' = "casadi"
    /\ UNCHANGED <<prj, pen, alm, par, thr, cutest>>

Call_CasADi_eval_grad_psi ==
    /\ pc = "casadi"
    /\ ev' = CasADi_eval_grad_psi(ev, "y", "Sigma", "grad_psi")
    /\ pc' = "casadi_grad_psi"
    /\ UNCHANGED <<prj, pen, alm, par, thr, cutest>>

Call_CasADi_eval_psi_grad_psi ==
    /\ pc = "casadi"
    /\ ev' = CasADi_eval_psi_grad_psi(ev, "y", "Sigma", "grad_psi")
    /\ pc' = "casadi_psi_grad_psi"
    /\ UNCHANGED <<prj, pen, alm, par, thr, cutest>>

EvNext ==
    \/ Call_eval_psi_yhat
    \/ Call_eval_grad_psi_from_yhat
    \/ Call_eval_grad_psi
    \/ Call_eval_psi_grad_psi
    \/ LoadCasADiProblem
    \/ Call_CasADi_eval_grad_psi
    \/ Call_CasADi_eval_psi_grad_psi

SpecEval ==
    EvInit /\ [][EvNext]_vars

\* The state in which the evaluation that led to the current state began.
Before ==
    Fresh(ev.prob, ev.buf.y, ev.buf.Sigma)

\* C4: for every x, y, Sigma > 0 and m >= 0, the compiled-in eval_psi_grad_psi
\* returns the psi, writes the gradient and leaves in work_m the yhat that the
\* reference implementation (eval_psi_yhat, then eval_grad_psi_from_yhat on
\* the yhat it produced) yields; the pair called separately gives the same.
C4_FusedEqualsPair ==
    /\ pc = "psi_grad_psi" =>
          LET ref == eval_psi_grad_psi_reference(Before, "y", "Sigma",
                         "grad_psi", "work_n", "work_m")
          IN  /\ ev.ret = ref.ret
              /\ ev.buf.grad_psi = ref.buf.grad_psi
              /\ ev.buf.work_m = ref.buf.work_m
    /\ pc = "grad_psi_from_yhat" =>
          LET fused == eval_psi_grad_psi(Before, "y", "Sigma", "grad_psi",
                                         "work_n", "work_m")
          IN  /\ ev.ret = fused.ret
              /\ ev.buf.grad_psi = fused.buf.grad_psi
              /\ ev.buf.yhat = fused.buf.work_m

\* C4 witness: a fused evaluation with two constraints, one of them violated
\* (a nonzero yhat component), so that psi differs from f(x) and the gradient
\* from grad f(x).
C4_Witness ==
    /\ pc = "psi_grad_psi" /\ ev.prob.m = 2
    /\ \E i \in 1..ev.prob.m : ev.buf.work_m[i] # R(0)
    /\ ev.ret # ev.prob.f
    /\ ev.buf.grad_psi # ev.prob.grad_f

\* zeta = g(x) + y / Sigma and d = zeta - Pi_D(zeta), component i.
Zeta(i) ==
    Add(ev.prob.g[i], Div(ev.buf.y[i], ev.buf.Sigma[i]))

Dist(i) ==
    Sub(Zeta(i),
        Clamp(Zeta(i), ev.prob.D.lowerbound[i], ev.prob.D.upperbound[i]))

RECURSIVE SumSigmaDistSq(_)
SumSigmaDistSq(k) ==
    IF k = 0 THEN R(0)
    ELSE Add(SumSigmaDistSq(k - 1),
             Mul(ev.buf.Sigma[k], Mul(Dist(k), Dist(k))))

\* C5: for m > 0, eval_psi_yhat writes yhat(i) = Sigma(i) d(i) and returns
\* f(x) + 1/2 sum_i Sigma(i) d(i)^2 with zeta = g(x) + y / Sigma and
\* d = zeta - Pi_D(zeta).
C5_PsiFromDefinition ==
    (pc = "psi_yhat" /\ ev.prob.m > 0) =>
        /\ \A i \in 1..ev.prob.m : ev.buf.yhat[i] = Mul(ev.buf.Sigma[i], Dist(i))
        /\ ev.ret = Add(ev.prob.f, Mul(Q(1, 2), SumSigmaDistSq(ev.prob.m)))

\* C5 witness: an evaluation with differing penalty weights, one constraint
\* above its upper bound and one inside D.
C5_Witness ==
    /\ pc = "psi_yhat" /\ ev.prob.m = 2
    /\ ev.buf.Sigma[1] # ev.buf.Sigma[2]
    /\ \E i, j \in 1..ev.prob.m :
          /\ Gt(Dist(i), R(0)) /\ Dist(j) = R(0)
          /\ IsFinite(ev.prob.D.upperbound[i])

\* C6: when m = 0, eval_psi_yhat returns f(x), and eval_grad_psi,
\* eval_grad_psi_from_yhat and eval_psi_grad_psi write grad f(x) (the last
\* also returns f(x)); none invokes eval_g or eval_grad_g_prod, reads y or
\* Sigma, or writes yhat or work_m.
C6_NoConstraints ==
    (ev.prob.m = 0 /\ pc \in {"psi_yhat", "grad_psi", "grad_psi_from_yhat",
                             "psi_grad_psi"}) =>
        /\ pc \in {"psi_yhat", "grad_psi_from_yhat", "psi_grad_psi"} =>
              ev.ret = ev.prob.f
        /\ pc # "psi_yhat" => ev.buf.grad_psi = ev.prob.grad_f
        /\ \A k \in DOMAIN ev.trace : ev.trace[k] \in {"eval_f", "eval_grad_f"}
        /\ ev.reads \cap {"y", "Sigma"} = {}
        /\ ev.writes \cap {"yhat", "work_m"} = {}
        /\ ev.buf.yhat = Before.buf.yhat /\ ev.buf.work_m = Before.buf.work_m

\* C6 witness: the fused evaluation on a problem without constraints.
C6_Witness ==
    /\ pc = "psi_grad_psi" /\ ev.prob.m = 0
    /\ ev.ret = ev.prob.f /\ ev.buf.grad_psi = ev.prob.grad_f
    /\ ev.trace = <<"eval_grad_f", "eval_f">>

\* grad f(x) + grad g(x) yhat for the yhat in buffer b of state s.
GradFromYhat(s, b) ==
    [k \in 1..s.prob.n |->
        Add(s.prob.grad_f[k], ColDot(s.prob.J, s.buf[b], k, s.prob.m))]

\* C7: for m > 0, the default eval_grad_psi writes grad f(x) + grad g(x) yhat
\* with yhat the vector eval_psi_yhat computes for the same arguments, which
\* is the gradient eval_psi_grad_psi writes; the CasADi eval_grad_psi writes
\* the gradient the CasADi eval_psi_grad_psi writes.
C7_GradPsi ==
    /\ (pc = "grad_psi" /\ ev.prob.m > 0) =>
          /\ ev.buf.grad_psi =
                GradFromYhat(eval_psi_yhat(Before, "y", "Sigma", "yhat"), "yhat")
          /\ ev.buf.grad_psi =
                eval_psi_grad_psi(Before, "y", "Sigma", "grad_psi", "work_n",
                                  "work_m").buf.grad_psi
    /\ pc = "casadi_grad_psi" =>
          ev.buf.grad_psi =
              CasADi_eval_psi_grad_psi(Before, "y", "Sigma",
                                       "grad_psi").buf.grad_psi

\* C7 witness: a default eval_grad_psi with a violated constraint, whose
\* gradient differs from grad f(x).
C7_Witness ==
    /\ pc = "grad_psi" /\ ev.prob.m = 2
    /\ ev.buf.grad_psi # ev.prob.grad_f
    /\ \E i \in 1..ev.prob.m : ev.buf.work_m[i] # R(0)

\* C7 witness on the CasADi side: the generated psi_grad_psi and grad_psi
\* functions would give different gradients.
C7_WitnessCasADi ==
    /\ pc = "casadi_grad_psi"
    /\ ev.prob.casadi.grad_psi # ev.prob.casadi.psi_grad_psi.grad

----------------------------------------------------------------------------
(* StructuredPANOCLBFGSParams::verify                                      *)

\* verify returns normally.
Valid ==
    "ok"

\* LipschitzEstimateParams::verify: the step size factor must lie in (0, 1).
Lipschitz_verify(L) ==
    IF Le(L.Lgamma_factor, R(0)) \/ Ge(L.Lgamma_factor, R(1))
    THEN "LipschitzEstimateParams::Lgamma_factor must be in (0, 1)"
    ELSE Valid

\* Faulty variant of verify: tau_min is checked before max_iter.
verify_tau_first(p) ==
    LET Lipschitz == Lipschitz_verify(p.Lipschitz)
    IN  IF Lipschitz # Valid THEN Lipschitz
        ELSE IF Le(p.tau_min, R(0)) \/ Ge(p.tau_min, R(1)) THEN
            "StructuredPANOCLBFGSParams::tau_min must be in (0, 1)"
        ELSE IF p.max_iter = 0 THEN
            "StructuredPANOCLBFGSParams::max_iter cannot be 0"
        ELSE IF p.max_time = 0 THEN
            "StructuredPANOCLBFGSParams::max_time cannot be 0"
        ELSE IF Lt(p.L_min, R(0)) THEN
            "StructuredPANOCLBFGSParams::L_min must be positive"
        ELSE IF Lt(p.L_max, R(0)) THEN
            "StructuredPANOCLBFGSParams::L_max must be positive"
        ELSE IF Lt(p.L_max, p.L_min) THEN
            "StructuredPANOCLBFGSParams::L_max must be less than L_min"
        ELSE IF Lt(p.fpr_shortcut_accept_factor, R(0))
                \/ Ge(p.fpr_shortcut_accept_factor, R(1)) THEN
            "StructuredPANOCLBFGSParams::fpr_shortcut_accept_factor must be in [0, 1)"
        ELSE IF p.fpr_shortcut_history = 0 THEN
            "StructuredPANOCLBFGSParams::fpr_shortcut_history cannot be 0"
        ELSE IF Lt(p.quadratic_upperbound_tolerance_factor, R(0)) THEN
            "StructuredPANOCLBFGSParams::quadratic_upperbound_tolerance_factor must be positive"
        ELSE Valid

\* The message of the invalid_argument that verify throws, or Valid when it
\* returns.  max_time is the count of the duration.
verify(p) ==
    LET Lipschitz == Lipschitz_verify(p.Lipschitz)
    IN  IF Lipschitz # Valid THEN Lipschitz
        ELSE IF p.max_iter = 0 THEN
            "StructuredPANOCLBFGSParams::max_iter cannot be 0"
        ELSE IF p.max_time = 0 THEN
            "StructuredPANOCLBFGSParams::max_time cannot be 0"
        ELSE IF Le(p.tau_min, R(0)) \/ Ge(p.tau_min, R(1)) THEN
            "StructuredPANOCLBFGSParams::tau_min must be in (0, 1)"
        ELSE IF Lt(p.L_min, R(0)) THEN
            "StructuredPANOCLBFGSParams::L_min must be positive"
        ELSE IF Lt(p.L_max, R(0)) THEN
            "StructuredPANOCLBFGSParams::L_max must be positive"
        ELSE IF Lt(p.L_max, p.L_min) THEN
            "StructuredPANOCLBFGSParams::L_max must be less than L_min"
        ELSE IF Lt(p.fpr_shortcut_accept_factor, R(0))
                \/ Ge(p.fpr_shortcut_accept_factor, R(1)) THEN
            "StructuredPANOCLBFGSParams::fpr_shortcut_accept_factor must be in [0, 1)"
        ELSE IF p.fpr_shortcut_history = 0 THEN
            "StructuredPANOCLBFGSParams::fpr_shortcut_history cannot be 0"
        ELSE IF Lt(p.quadratic_upperbound_tolerance_factor, R(0)) THEN
            "StructuredPANOCLBFGSParams::quadratic_upperbound_tolerance_factor must be positive"
        ELSE Valid

\* Parameter values that are explored (finite reals, durations in ticks).
MaxIterVals ==
    {0, 500}

MaxTimeVals ==
    {-1, 0, 1}

TauMinVals ==
    {R(0), Q(1, 256), R(1)}

LMinVals ==
    {R(-1), R(0), Q(1, 10)}

LMaxVals ==
    {R(-2), R(0), Q(1, 20), R(5)}

AcceptFactorVals ==
    {Q(999, 1000), R(1)}

HistoryVals ==
    {0, 5}

ToleranceFactorVals ==
    {R(-1), R(0)}

LgammaVals ==
    {Q(19, 20), R(1)}

VerInit ==
    /\ pc = "verify"
    /\ \E max_iter \in MaxIterVals, max_time \in MaxTimeVals,
          tau_min \in TauMinVals, L_min \in LMinVals, L_max \in LMaxVals,
          accept \in AcceptFactorVals, history \in HistoryVals,
          tol \in ToleranceFactorVals, Lgamma \in LgammaVals :
          par = [params |->
                    [Lipschitz |-> [Lgamma_factor |-> Lgamma],
                     max_iter |-> max_iter, max_time |-> max_time,
                     tau_min |-> tau_min, L_min |-> L_min, L_max |-> L_max,
                     fpr_shortcut_accept_factor |-> accept,
                     fpr_shortcut_history |-> history,
                     quadratic_upperbound_tolerance_factor |-> tol],
                 result |-> Valid]
    /\ prj = Idle /\ pen = Idle /\ alm = Idle /\ ev = Idle /\ thr = Idle
    /\ cutest = Idle

Call_verify ==
    /\ pc = "verify"
    /\ par' = [par EXCEPT !.result = verify(par.params)]
    /\ pc' = "verified"
    /\ UNCHANGED <<prj, pen, alm, ev, thr, cutest>>

VerNext ==
    Call_verify

SpecVerify ==
    VerInit /\ [][VerNext]_vars

\* The checks in the order verify makes them: the field a check is about and
\* whether the parameters p fail it.
Checks(p) ==
    <<[field |-> "Lgamma_factor",
       fails |-> ~(Lt(R(0), p.Lipschitz.Lgamma_factor)
                   /\ Lt(p.Lipschitz.Lgamma_factor, R(1)))],
      [field |-> "max_iter", fails |-> p.max_iter = 0],
      [field |-> "max_time", fails |-> p.max_time = 0],
      [field |-> "tau_min",
       fails |-> ~(Lt(R(0), p.tau_min) /\ Lt(p.tau_min, R(1)))],
      [field |-> "L_min", fails |-> Lt(p.L_min, R(0))],
      [field |-> "L_max", fails |-> Lt(p.L_max, R(0))],
      [field |-> "L_max", fails |-> Lt(p.L_max, p.L_min)],
      [field |-> "fpr_shortcut_accept_factor",
       fails |-> ~(Le(R(0), p.fpr_shortcut_accept_factor)
                   /\ Lt(p.fpr_shortcut_accept_factor, R(1)))],
      [field |-> "fpr_shortcut_history", fails |-> p.fpr_shortcut_history = 0],
      [field |-> "quadratic_upperbound_tolerance_factor",
       fails |-> Lt(p.quadratic_upperbound_tolerance_factor, R(0))]>>

\* The field that the message msg names (the identifier it starts with).
NamedField(msg) ==
    CASE msg = "LipschitzEstimateParams::Lgamma_factor must be in (0, 1)" ->
            "Lgamma_factor"
      [] msg = "StructuredPANOCLBFGSParams::max_iter cannot be 0" -> "max_iter"
      [] msg = "StructuredPANOCLBFGSParams::max_time cannot be 0" -> "max_time"
      [] msg = "StructuredPANOCLBFGSParams::tau_min must be in (0, 1)" -> "tau_min"
      [] msg = "StructuredPANOCLBFGSParams::L_min must be positive" -> "L_min"
      [] msg = "StructuredPANOCLBFGSParams::L_max must be positive" -> "L_max"
      [] msg = "StructuredPANOCLBFGSParams::L_max must be less than L_min" -> "L_max"
      [] msg = "StructuredPANOCLBFGSParams::fpr_shortcut_accept_factor must be in [0, 1)" ->
            "fpr_shortcut_accept_factor"
      [] msg = "StructuredPANOCLBFGSParams::fpr_shortcut_history cannot be 0" ->
            "fpr_shortcut_history"
      [] msg = "StructuredPANOCLBFGSParams::quadratic_upperbound_tolerance_factor must be positive" ->
            "quadratic_upperbound_tolerance_factor"
      [] OTHER -> "none"

\* The domains the parameter contract states for the fields.
InDomain(p) ==
    /\ Lt(R(0), p.Lipschitz.Lgamma_factor) /\ Lt(p.Lipschitz.Lgamma_factor, R(1))
    /\ p.max_iter >= 1
    /\ p.max_time > 0
    /\ Lt(R(0), p.tau_min) /\ Lt(p.tau_min, R(1))
    /\ Lt(R(0), p.L_min) /\ Le(p.L_min, p.L_max)
    /\ Le(R(0), p.fpr_shortcut_accept_factor)
    /\ Lt(p.fpr_shortcut_accept_factor, R(1))
    /\ p.fpr_shortcut_history >= 1
    /\ Le(R(0), p.quadratic_upperbound_tolerance_factor)

\* Index of the first check that fails, 0 when none does.
FirstFailing(p) ==
    LET failing == {k \in DOMAIN Checks(p) : Checks(p)[k].fails}
    IN  IF failing = {} THEN 0
        ELSE CHOOSE k \in failing : \A j \in failing : k <= j

\* C14: for finite parameter values, verify fails with an invalid_argument
\* whenever max_iter = 0, tau_min is outside (0, 1),
\* quadratic_upperbound_tolerance_factor < 0 or L_max < L_min; it returns
\* normally when every field is inside its stated domain; and the message
\* names the field of the first failing check in the fixed check order.
C14_VerifyReportsFirstInvalid ==
    pc = "verified" =>
        LET p == par.params
            k == FirstFailing(p)
        IN  /\ (\/ p.max_iter = 0
                \/ ~(Lt(R(0), p.tau_min) /\ Lt(p.tau_min, R(1)))
                \/ Lt(p.quadratic_upperbound_tolerance_factor, R(0))
                \/ Lt(p.L_max, p.L_min)) => par.result # Valid
            /\ InDomain(p) => par.result = Valid
            /\ par.result # Valid =>
                  /\ k > 0
                  /\ NamedField(par.result) = Checks(p)[k].field
            /\ par.result = Valid => k = 0

\* C14 witness: max_iter, tau_min and the tolerance factor are all invalid
\* and the message names max_iter, the first of them in the check order.
C14_Witness ==
    /\ pc = "verified"
    /\ par.params.max_iter = 0
    /\ par.params.tau_min = R(1)
    /\ Lt(par.params.quadratic_upperbound_tolerance_factor, R(0))
    /\ NamedField(par.result) = "max_iter"

\* C15: verify fails for max_time = 0 and for every negative max_time, and
\* accepts only max_time > 0.
C15_MaxTimePositive ==
    pc = "verified" =>
        /\ par.params.max_time <= 0 => par.result # Valid
        /\ par.result = Valid => par.params.max_time > 0

\* C16: verify fails for L_min = 0, for L_min < 0, for L_max <= 0 and for
\* L_max < L_min; it accepts the clamp only when 0 < L_min <= L_max.
C16_LipschitzClampPositive ==
    pc = "verified" =>
        /\ (\/ Le(par.params.L_min, R(0))
            \/ Le(par.params.L_max, R(0))
            \/ Lt(par.params.L_max, par.params.L_min)) => par.result # Valid
        /\ par.result = Valid =>
              /\ Lt(R(0), par.params.L_min)
              /\ Le(par.params.L_min, par.params.L_max)

----------------------------------------------------------------------------
(* ProblemWithCounters shared by two threads                               *)
(*                                                                         *)
(* evaluations.f and evaluations.g are plain unsigned members; the         *)
(* increment ++evaluations.c of a call is a read of the member followed by *)
(* a write of the value read plus one, and the reads and writes of two     *)
(* threads that call evaluation methods on the same object interleave.     *)

\* Largest number of evaluation calls a thread makes.
MaxCalls == 2

Threads ==
    {"t1", "t2"}

\* The counters of the evaluations the threads call.
SharedCounters ==
    {"f", "g"}

\* Sequences of 1..MaxCalls evaluations: the calls one thread will make.
CallSeqs ==
    UNION {[1..k -> SharedCounters] : k \in 1..MaxCalls}

ThrInit ==
    /\ pc = "threads"
    /\ \E todo \in [Threads -> CallSeqs] :
          thr = [evaluations |-> [c \in SharedCounters |-> CounterZero],
                 returned    |-> [c \in SharedCounters |-> 0],
                 thread      |-> [t \in Threads |->
                                     [at |-> "idle", reg |-> CounterZero,
                                      todo |-> todo[t]]]]
    /\ prj = Idle /\ pen = Idle /\ alm = Idle /\ ev = Idle /\ par = Idle
    /\ cutest = Idle

\* Thread t enters its next evaluation method: ++evaluations.c reads c.
IncrementRead(t) ==
    /\ pc = "threads"
    /\ thr.thread[t].at = "idle" /\ thr.thread[t].todo # <<>>
    /\ thr' = [thr EXCEPT
                  !.thread[t].reg = thr.evaluations[Head(thr.thread[t].todo)],
                  !.thread[t].at = "read"]
    /\ UNCHANGED <<pc, prj, pen, alm, ev, par, cutest>>

\* ++evaluations.c writes the value read plus one.
IncrementWrite(t) ==
    /\ pc = "threads"
    /\ thr.thread[t].at = "read"
    /\ thr' = [thr EXCEPT
                  !.evaluations[Head(thr.thread[t].todo)] =
                      Incremented(thr.thread[t].reg),
                  !.thread[t].at = "written"]
    /\ UNCHANGED <<pc, prj, pen, alm, ev, par, cutest>>

\* The wrapped evaluation runs and the call returns.
EvaluateAndReturn(t) ==
    /\ pc = "threads"
    /\ thr.thread[t].at = "written"
    /\ thr' = [thr EXCEPT
                  !.returned[Head(thr.thread[t].todo)] = @ + 1,
                  !.thread[t].todo = Tail(@),
                  !.thread[t].at = "idle"]
    /\ UNCHANGED <<pc, prj, pen, alm, ev, par, cutest>>

ThrNext ==
    \E t \in Threads :
        \/ IncrementRead(t)
        \/ IncrementWrite(t)
        \/ EvaluateAndReturn(t)

SpecThreads ==
    ThrInit /\ [][ThrNext]_vars

AllReturned ==
    \A t \in Threads : thr.thread[t].at = "idle" /\ thr.thread[t].todo = <<>>

\* C17: when two threads call evaluation methods on the same
\* ProblemWithCounters concurrently, after all calls have returned each
\* counter equals the number of calls made to that evaluation, under every
\* interleaving.
C17_NoLostIncrement ==
    (pc = "threads" /\ AllReturned) =>
        \A c \in SharedCounters :
            thr.evaluations[c] = CounterZero + thr.returned[c]

\* What holds of the racing increments: a counter never exceeds the number
\* of calls entered, and it counts exactly when no other thread is inside an
\* increment of the same counter.
C17_NeverOvercounts ==
    pc = "threads" =>
        \A c \in SharedCounters :
            thr.evaluations[c] <=
                CounterZero + thr.returned[c] + Cardinality({t \in Threads :
                    /\ thr.thread[t].at = "written"
                    /\ Head(thr.thread[t].todo) = c})

------------------------------------------------------------------------------
\* Dispatch of the evaluations of Problem: a caller invokes one evaluation
\* of a problem that provides some of the basic evaluations and leaves the
\* others to the throwing defaults.

Composite ==
    {"eval_f_grad_f", "eval_f_g", "eval_f_grad_f_g", "eval_grad_f_grad_g_prod",
     "eval_grad_L", "eval_psi_yhat", "eval_grad_psi_from_yhat", "eval_grad_psi",
     "eval_psi_grad_psi"}

\* A problem of n = NDim variables and m constraints with fixed values at
\* the point x of the calls.
ProblemAt(m, missing, counted) ==
    [n |-> NDim, m |-> m, f |-> R(3),
     grad_f |-> [k \in 1..NDim |-> R(k)],
     g |-> [i \in 1..m |-> R(2 * i)],
     J |-> [i \in 1..m |-> [k \in 1..NDim |-> R(i + 2 * k)]],
     D |-> [lowerbound |-> [i \in 1..m |-> R(-1)],
            upperbound |-> [i \in 1..m |-> R(1)]],
     hess_L |-> HessVal,
     missing |-> missing,
     counted |-> counted,
     loader |-> "user",
     ticks |-> 1,
     grad_g_raises |-> FALSE,
     w |-> [i \in 1..m |-> R(0)],
     casadi |-> NoCasADi]

\* The caller's arguments: multipliers y, penalties Sigma, and a candidate
\* yhat for eval_grad_psi_from_yhat.
Arguments(prob) ==
    [Fresh(prob, [i \in 1..prob.m |-> R(1)], [i \in 1..prob.m |-> R(2)])
        EXCEPT !.buf.yhat = [i \in 1..prob.m |-> R(-1)]]

DispInit ==
    /\ pc = "ready"
    /\ \E m \in 0..MaxM, names \in SUBSET Basic :
          ev = Arguments(ProblemAt(m, DefaultsOf(names), FALSE))
    /\ prj = Idle /\ pen = Idle /\ alm = Idle /\ par = Idle /\ thr = Idle
    /\ cutest = Idle

Invoke_eval_f ==
    /\ pc = "ready"
    /\ ev' = eval_f(ev)
    /\ pc' = "eval_f"
    /\ UNCHANGED <<prj, pen, alm, par, thr, cutest>>

Invoke_eval_grad_f ==
    /\ pc = "ready"
    /\ ev' = eval_grad_f(ev, "grad_f")
    /\ pc' = "eval_grad_f"
    /\ UNCHANGED <<prj, pen, alm, par, thr, cutest>>

Invoke_eval_g ==
    /\ pc = "ready"
    /\ ev' = eval_g(ev, "g")
    /\ pc' = "eval_g"
    /\ UNCHANGED <<prj, pen, alm, par, thr, cutest>>

Invoke_eval_grad_g_prod ==
    /\ pc = "ready"
    /\ ev' = eval_grad_g_prod(ev, "y", "work_n")
    /\ pc' = "eval_grad_g_prod"
    /\ UNCHANGED <<prj, pen, alm, par, thr, cutest>>

Invoke_eval_grad_gi ==
    /\ pc = "ready"
    /\ \E i \in 1..MaxM :
          /\ i <= ev.prob.m \/ Missing(ev, "eval_grad_gi")
          /\ ev' = eval_grad_gi([ev EXCEPT !.buf.i = i], i, "grad_gi")
    /\ pc' = "eval_grad_gi"
    /\ UNCHANGED <<prj, pen, alm, par, thr, cutest>>

Invoke_eval_hess_L_prod ==
    /\ pc = "ready"
    /\ ev' = eval_hess_L_prod(ev, "y", "v", "Hv")
    /\ pc' = "eval_hess_L_prod"
    /\ UNCHANGED <<prj, pen, alm, par, thr, cutest>>

Invoke_eval_hess_L ==
    /\ pc = "ready"
    /\ ev' = eval_hess_L(ev, "y", "H")
    /\ pc' = "eval_hess_L"
    /\ UNCHANGED <<prj, pen, alm, par, thr, cutest>>

Invoke_eval_f_grad_f ==
    /\ pc = "ready"
    /\ ev' = eval_f_grad_f(ev, "grad_f")
    /\ pc' = "eval_f_grad_f"
    /\ UNCHANGED <<prj, pen, alm, par, thr, cutest>>

Invoke_eval_f_g ==
    /\ pc = "ready"
    /\ ev' = eval_f_g(ev, "g")
    /\ pc' = "eval_f_g"
    /\ UNCHANGED <<prj, pen, alm, par, thr, cutest>>

Invoke_eval_f_grad_f_g ==
    /\ pc = "ready"
    /\ ev' = eval_f_grad_f_g(ev, "grad_f", "g")
    /\ pc' = "eval_f_grad_f_g"
    /\ UNCHANGED <<prj, pen, alm, par, thr, cutest>>

Invoke_eval_grad_f_grad_g_prod ==
    /\ pc = "ready"
    /\ ev' = eval_grad_f_grad_g_prod(ev, "y", "grad_f", "work_n")
    /\ pc' = "eval_grad_f_grad_g_prod"
    /\ UNCHANGED <<prj, pen, alm, par, thr, cutest>>

Invoke_eval_grad_L ==
    /\ pc = "ready"
    /\ ev' = eval_grad_L(ev, "y", "grad_psi", "work_n")
    /\ pc' = "eval_grad_L"
    /\ UNCHANGED <<prj, pen, alm, par, thr, cutest>>

Invoke_eval_psi_yhat ==
    /\ pc = "ready"
    /\ ev' = eval_psi_yhat(ev, "y", "Sigma", "yhat")
    /\ pc' = "eval_psi_yhat"
    /\ UNCHANGED <<prj, pen, alm, par, thr, cutest>>

Invoke_eval_grad_psi_from_yhat ==
    /\ pc = "ready"
    /\ ev' = eval_grad_psi_from_yhat(ev, "yhat", "grad_psi", "work_n")
    /\ pc' = "eval_grad_psi_from_yhat"
    /\ UNCHANGED <<prj, pen, alm, par, thr, cutest>>

Invoke_eval_grad_psi ==
    /\ pc = "ready"
    /\ ev' = eval_grad_psi(ev, "y", "Sigma", "grad_psi", "work_n", "work_m")
    /\ pc' = "eval_grad_psi"
    /\ UNCHANGED <<prj, pen, alm, par, thr, cutest>>

Invoke_eval_psi_grad_psi ==
    /\ pc = "ready"
    /\ ev' = eval_psi_grad_psi(ev, "y", "Sigma", "grad_psi", "work_n", "work_m")
    /\ pc' = "eval_psi_grad_psi"
    /\ UNCHANGED <<prj, pen, alm, par, thr, cutest>>

DispNext ==
    \/ Invoke_eval_f
    \/ Invoke_eval_grad_f
    \/ Invoke_eval_g
    \/ Invoke_eval_grad_g_prod
    \/ Invoke_eval_grad_gi
    \/ Invoke_eval_hess_L_prod
    \/ Invoke_eval_hess_L
    \/ Invoke_eval_f_grad_f
    \/ Invoke_eval_f_g
    \/ Invoke_eval_f_grad_f_g
    \/ Invoke_eval_grad_f_grad_g_prod
    \/ Invoke_eval_grad_L
    \/ Invoke_eval_psi_yhat
    \/ Invoke_eval_grad_psi_from_yhat
    \/ Invoke_eval_grad_psi
    \/ Invoke_eval_psi_grad_psi

SpecDispatch ==
    DispInit /\ [][DispNext]_vars

\* The basic evaluations that the call has invoked and that the problem
\* leaves to the throwing default.
ReachedMissing ==
    {k \in 1..Len(ev.trace) : Missing(ev, ev.trace[k])}

C13_FourBasicsSuffice ==
    (pc \in Composite /\ ev.prob.missing = MinimalProblemMissing) =>
        /\ ev.err = NoError
        /\ \A k \in 1..Len(ev.trace) :
              ev.trace[k] \notin {"eval_grad_gi", "eval_hess_L_prod", "eval_hess_L"}

C13_Witness ==
    /\ pc = "eval_psi_grad_psi"
    /\ ev.prob.missing = MinimalProblemMissing
    /\ ev.prob.m > 0
    /\ ev.err = NoError
    /\ "grad_psi" \in ev.writes

------------------------------------------------------------------------------
\* ProblemWithCounters used by a single thread: calls of the evaluations of
\* a wrapped problem, the caller taking each result (or catching the
\* exception), and evaluations.reset().

\* The counters after CounterTop calls of eval_f.
AfterManyCallsOfEvalF ==
    [c \in Counters |-> IF c = "f" THEN CounterTop ELSE CounterZero]

CountInit ==
    /\ pc = "ready"
    /\ \E m \in 0..MaxM,
          names \in {{}, {"eval_grad_gi", "eval_hess_L_prod", "eval_hess_L"},
                     {"eval_grad_g_prod", "eval_grad_gi", "eval_hess_L_prod",
                      "eval_hess_L"}},
          counts \in {[c \in Counters |-> CounterZero], AfterManyCallsOfEvalF} :
          ev = [Arguments(ProblemAt(m, DefaultsOf(names), TRUE))
                   EXCEPT !.evaluations = counts]
    /\ prj = Idle /\ pen = Idle /\ alm = Idle /\ par = Idle /\ thr = Idle
    /\ cutest = Idle

\* The caller takes the result of the call, or catches its exception.
Return ==
    /\ pc \in Basic \cup Composite
    /\ ev.returned < MaxCalls - 1
    /\ ev' = [ev EXCEPT !.returned = @ + 1,
                        !.caught = IF Thrown(ev) THEN @ \cup {ev.err} ELSE @,
                        !.err = NoError,
                        !.trace = <<>>, !.reads = {}, !.writes = {}]
    /\ pc' = "ready"
    /\ UNCHANGED <<prj, pen, alm, par, thr, cutest>>

\* evaluations.reset()
Reset ==
    /\ pc = "ready"
    /\ ev.prob.counted
    /\ ev.evaluations # [c \in Counters |-> CounterZero]
    /\ ev' = [ev EXCEPT !.evaluations = [c \in Counters |-> CounterZero]]
    /\ UNCHANGED <<pc, prj, pen, alm, par, thr, cutest>>

CountNext ==
    \/ DispNext
    \/ Return
    \/ Reset

SpecCount ==
    CountInit /\ [][CountNext]_vars

\* The counter of each evaluation method.
CounterOf(name) ==
    CASE name = "eval_f" -> "f"
      [] name = "eval_grad_f" -> "grad_f"
      [] name = "eval_g" -> "g"
      [] name = "eval_grad_g_prod" -> "grad_g_prod"
      [] name = "eval_grad_gi" -> "grad_gi"
      [] name = "eval_hess_L_prod" -> "hess_L_prod"
      [] name = "eval_hess_L" -> "hess_L"
      [] name = "eval_f_grad_f" -> "f_grad_f"
      [] name = "eval_f_g" -> "f_g"
      [] name = "eval_f_grad_f_g" -> "f_grad_f_g"
      [] name = "eval_grad_f_grad_g_prod" -> "grad_f_grad_g_prod"
      [] name = "eval_grad_L" -> "grad_L"
      [] name = "eval_psi_yhat" -> "psi"
      [] name = "eval_grad_psi_from_yhat" -> "grad_psi_from_yhat"
      [] name = "eval_grad_psi" -> "grad_psi"
      [] name = "eval_psi_grad_psi" -> "psi_grad_psi"

NestedInPsiGradPsi ==
    {"psi_grad_psi", "f_g", "f", "g", "grad_L", "grad_f_grad_g_prod", "grad_f",
     "grad_g_prod"}

\* One call counted: the step from "ready" to the returned call.
IsCall ==
    pc = "ready" /\ pc' \in Basic \cup Composite

\* Counter c is one larger after the step (the largest value of the type
\* has no successor).
RaisedByOne(c) ==
    /\ ev.evaluations[c] # CounterTop
    /\ ev'.evaluations[c] = ev.evaluations[c] + 1

CallCountsExactly ==
    /\ IsCall => RaisedByOne(CounterOf(pc'))
    /\ (IsCall /\ pc' = "eval_psi_grad_psi" /\ ev.prob.m > 0) =>
          \A c \in Counters :
              IF c \in NestedInPsiGradPsi THEN RaisedByOne(c)
              ELSE ev'.evaluations[c] = ev.evaluations[c]

NoDecrease ==
    \A c \in Counters : ev'.evaluations[c] >= ev.evaluations[c]

\* C18: in a single thread, each call of an evaluation method on a
\* ProblemWithCounters increments that method's counter by exactly 1; one
\* eval_psi_grad_psi call with m > 0 raises the counters psi_grad_psi, f_g, f, g,
\* grad_L, grad_f_grad_g_prod, grad_f and grad_g_prod by exactly 1 each and
\* changes no other counter; counters never decrease except through reset().
C18_CountedExactlyOnce ==
    [][CallCountsExactly /\ (Reset \/ NoDecrease)]_vars

\* The same, for calls made while no counter involved is at its largest
\* value: the counts are exact and no counter decreases.
BelowTop ==
    \A c \in Counters : ev.evaluations[c] # CounterTop

C18_CountedExactlyOnceBelowTop ==
    [][BelowTop => (CallCountsExactly /\ (Reset \/ NoDecrease))]_vars

\* C24: a ProblemWithCounters evaluation whose underlying evaluation throws
\* still leaves its call counter incremented by 1 (the increment happens
\* before delegation) but adds nothing to the accumulated time for that
\* evaluation; for a basic evaluation all other counters and timers are
\* unchanged by the failed call.
C24_FailedCallCountedNotTimed ==
    [][(IsCall /\ Thrown(ev')) =>
          /\ ev'.clock > ev.clock
          /\ ev'.evaluations[CounterOf(pc')] =
                Incremented(ev.evaluations[CounterOf(pc')])
          /\ ev'.time[CounterOf(pc')] = ev.time[CounterOf(pc')]
          /\ pc' \in Basic =>
                \A c \in Counters \ {CounterOf(pc')} :
                    /\ ev'.evaluations[c] = ev.evaluations[c]
                    /\ ev'.time[c] = ev.time[c]]_vars

\* eval_hess_L has failed on a wrapped problem after an eval_f that was
\* timed: its counter shows the call, its timer nothing.
C24_Witness ==
    /\ pc = "eval_hess_L"
    /\ Thrown(ev)
    /\ ev.prob.counted
    /\ ev.evaluations["hess_L"] = CounterZero + 1
    /\ ev.time["hess_L"] = 0
    /\ ev.time["f"] > 0

------------------------------------------------------------------------------
\* load_CasADi_problem: the functions are looked up in the shared library by
\* name, g first; the second-order functions only when second_order is set.

FirstOrderFunctions ==
    <<"g", "f", "grad_f", "grad_g">>

SecondOrderFunctions ==
    <<"hess_L", "hess_L_prod">>

Exported ==
    {"g", "f", "grad_f", "grad_g", "hess_L", "hess_L_prod"}

\* The lookups made for the functions wanted, in order, up to the first one
\* the library does not export (casadi::external throws there).
RECURSIVE Lookups(_, _)
Lookups(wanted, library) ==
    IF wanted = <<>> THEN <<>>
    ELSE IF Head(wanted) \notin library THEN <<Head(wanted)>>
    ELSE <<Head(wanted)>> \o Lookups(Tail(wanted), library)

NotSupported ==
    ("eval_hess_L_prod" :> "CasADiProblem::hess_L_prod not supported") @@
    ("eval_hess_L" :> "CasADiProblem::hess_L not supported")

\* Faulty variant of load_CasADi_problem: hess_L and hess_L_prod are looked
\* up whatever second_order says.
load_CasADi_problem_eager(library, m, second_order) ==
    LET wanted  == FirstOrderFunctions \o SecondOrderFunctions
        lookups == Lookups(wanted, library)
        last    == lookups[Len(lookups)]
    IN  IF last \notin library
        THEN [library |-> library, second_order |-> second_order, m |-> m,
              lookups |-> lookups,
              err |-> "invalid_argument: Unable to load function " \o last]
        ELSE Arguments([ProblemAt(m, IF second_order THEN DefaultsOf({})
                                     ELSE NotSupported, FALSE)
                           EXCEPT !.loader = "casadi"])
             @@ [library |-> library, second_order |-> second_order,
                 lookups |-> lookups]

load_CasADi_problem(library, m, second_order) ==
    LET wanted  == FirstOrderFunctions \o
                   (IF second_order THEN SecondOrderFunctions ELSE <<>>)
        lookups == Lookups(wanted, library)
        last    == lookups[Len(lookups)]
    IN  IF last \notin library
        THEN [library |-> library, second_order |-> second_order, m |-> m,
              lookups |-> lookups,
              err |-> "invalid_argument: Unable to load function " \o last]
        ELSE Arguments([ProblemAt(m, IF second_order THEN DefaultsOf({})
                                     ELSE NotSupported, FALSE)
                           EXCEPT !.loader = "casadi"])
             @@ [library |-> library, second_order |-> second_order,
                 lookups |-> lookups]

CasInit ==
    /\ pc = "load"
    /\ \E library \in SUBSET Exported, m \in 0..MaxM, second_order \in BOOLEAN :
          ev = [library |-> library, second_order |-> second_order, m |-> m]
    /\ prj = Idle /\ pen = Idle /\ alm = Idle /\ par = Idle /\ thr = Idle
    /\ cutest = Idle

Call_load_CasADi_problem ==
    /\ pc = "load"
    /\ ev' = load_CasADi_problem(ev.library, ev.m, ev.second_order)
    /\ pc' = IF "prob" \in DOMAIN ev' THEN "ready" ELSE "load_failed"
    /\ UNCHANGED <<prj, pen, alm, par, thr, cutest>>

CasNext ==
    \/ Call_load_CasADi_problem
    \/ DispNext
    \/ Return

SpecCasADi ==
    CasInit /\ [][CasNext]_vars

Loaded ==
    pc \notin {"load", "load_failed"}

ZeroVec(len) ==
    [i \in 1..len |-> R(0)]

\* The outputs of the first-order evaluations, from the values of the
\* generated functions.
FirstOrderOutput ==
    CASE pc = "eval_f" -> ev.ret = ev.prob.f
      [] pc = "eval_grad_f" -> ev.buf.grad_f = ev.prob.grad_f
      [] pc = "eval_g" -> ev.buf.g = ev.prob.g
      [] pc = "eval_grad_g_prod" ->
            ev.buf.work_n = [k \in 1..ev.prob.n |->
                                ColDot(ev.prob.J, ev.buf.y, k, ev.prob.m)]
      [] pc = "eval_grad_gi" -> ev.buf.grad_gi = ev.prob.J[ev.buf.i]

\* C20: a CasADi problem loaded with second_order = false loads successfully
\* without looking up hess_L or hess_L_prod; every call of eval_hess_L_prod
\* or eval_hess_L raises not_implemented_error, while eval_f, eval_grad_f,
\* eval_g, eval_grad_g_prod and eval_grad_gi give their results before and
\* after such a failed call.
C20_FirstOrderCasADiProblem ==
    /\ (pc = "load_failed" /\ ~ev.second_order) =>
          \E k \in 1..Len(FirstOrderFunctions) :
              FirstOrderFunctions[k] \notin ev.library
    /\ (Loaded /\ ~ev.second_order) =>
          /\ ev.lookups = FirstOrderFunctions
          /\ pc \in {"eval_hess_L_prod", "eval_hess_L"} =>
                ev.err = NotSupported[pc]
          /\ pc \in {"eval_f", "eval_grad_f", "eval_g", "eval_grad_g_prod",
                     "eval_grad_gi"} =>
                /\ ev.err = NoError
                /\ FirstOrderOutput
                /\ ev.prob.w = ZeroVec(ev.prob.m)

\* eval_grad_gi succeeds after a failed eval_hess_L on a problem loaded from
\* a library that exports no second-order function.
C20_Witness ==
    /\ pc = "eval_grad_gi"
    /\ ~ev.second_order
    /\ ev.library = {"g", "f", "grad_f", "grad_g"}
    /\ "CasADiProblem::hess_L not supported" \in ev.caught
    /\ ev.err = NoError
    /\ ev.buf.grad_gi = ev.prob.J[ev.buf.i]

------------------------------------------------------------------------------
\* detail::initialize_penalty called on a problem p at the start of the ALM
\* solver: the evaluations it makes and what it modifies.  s is the state of
\* the problem p (at the point x0), Sigma the vector to be filled.

\* Faulty variant of initialize_penalty_p: f and g are evaluated with the
\* composite eval_f_g.
initialize_penalty_p_fused(s, params, Sigma) ==
    LET s0 == [s EXCEPT !.buf = @ @@ [g0 |-> Unwritten(s.prob.m)]]
        s2 == eval_f_g(s0, "g0")
        f0 == s2.ret
    IN  IF Thrown(s2) THEN [p |-> s2, Sigma |-> Sigma]
        ELSE [p |-> s2, Sigma |-> initialize_penalty(f0, s2.buf.g0, params)]

\* real_t f0 = p.eval_f(x0); vec g0(p.m); p.eval_g(x0, g0); ...; Sigma.fill(sigma)
\* g0 is a local vector of the function.
initialize_penalty_p(s, params, Sigma) ==
    LET s0 == [s EXCEPT !.buf = @ @@ [g0 |-> Unwritten(s.prob.m)]]
        s1 == eval_f(s0)
        f0 == s1.ret
        s2 == eval_g(s1, "g0")
    IN  IF Thrown(s2) THEN [p |-> s2, Sigma |-> Sigma]
        ELSE [p |-> s2, Sigma |-> initialize_penalty(f0, s2.buf.g0, params)]

PenF0Vals ==
    {R(0), R(-3), R(20), R(600)}

PenG0Vals ==
    {R(0), R(1), R(40)}

\* The ALM solver before its first outer iteration: initial point x0,
\* multipliers y, no inner iteration made, Sigma not yet set.
PenInit ==
    /\ pc = "alm_start"
    /\ \E m \in 0..MaxM :
       \E range \in SigmaRanges, sigma0 \in IniSigma0Vals, counted \in BOOLEAN,
          f0 \in PenF0Vals, g0 \in [1..m -> PenG0Vals] :
          /\ ev = Arguments([ProblemAt(m, MinimalProblemMissing, counted)
                                EXCEPT !.f = f0, !.g = g0])
          /\ alm = [params |-> [Sigma_min |-> range[1], Sigma_max |-> range[2],
                                sigma0 |-> sigma0],
                    x0 |-> [k \in 1..NDim |-> R(k)],
                    y  |-> [i \in 1..m |-> R(1)],
                    Sigma |-> Unwritten(m),
                    inner_iterations |-> 0]
    /\ prj = Idle /\ pen = Idle /\ par = Idle /\ thr = Idle
    /\ cutest = Idle

Call_initialize_penalty_p ==
    /\ pc = "alm_start"
    /\ LET r == initialize_penalty_p(ev, alm.params, alm.Sigma)
       IN  /\ ev' = r.p
           /\ alm' = [alm EXCEPT !.Sigma = r.Sigma]
    /\ pc' = "penalty_initialized"
    /\ UNCHANGED <<prj, pen, par, thr, cutest>>

PenNext ==
    Call_initialize_penalty_p

SpecPenaltyInit ==
    PenInit /\ [][PenNext]_vars

\* C21: initialize_penalty performs exactly one eval_f and exactly one
\* eval_g and no other problem evaluation (no gradient, no composite), and
\* it modifies only Sigma: the problem, the vectors of the caller, x0, y,
\* the parameters and the count of inner iterations are as before.
C21_InitializePenaltyFrame ==
    [][(pc = "alm_start" /\ pc' = "penalty_initialized") =>
          /\ ev'.trace = ev.trace \o <<"eval_f", "eval_g">>
          /\ \A c \in Counters :
                ev'.evaluations[c] =
                    IF ev.prob.counted /\ c \in {"f", "g"}
                    THEN ev.evaluations[c] + 1 ELSE ev.evaluations[c]
          /\ ev'.prob = ev.prob
          /\ ev'.err = NoError
          /\ \A name \in DOMAIN ev.buf : ev'.buf[name] = ev.buf[name]
          /\ \A field \in DOMAIN alm \ {"Sigma"} : alm'[field] = alm[field]]_vars

\* initialize_penalty has run on a counted problem with constraints and has
\* set Sigma; the counters show one eval_f and one eval_g.
C21_Witness ==
    /\ pc = "penalty_initialized"
    /\ ev.prob.counted /\ ev.prob.m > 0
    /\ ev.trace = <<"eval_f", "eval_g">>
    /\ ev.evaluations["f"] = CounterZero + 1
    /\ ev.evaluations["g"] = CounterZero + 1
    /\ alm.Sigma # Unwritten(ev.prob.m)
    /\ alm.inner_iterations = 0

------------------------------------------------------------------------------
\* CUTEstLoader and CUTEstProblem (interop/cutest/CUTEstLoader.cpp).
\*
\* cutest.env is the environment of one loader: whether dlopen finds the
\* shared library, the symbols it exports, the statuses that the Fortran
\* routines report, and the dimensions cutest_cdimen returns.  The other
\* fields are the loader's members and the resources it holds: handle_open
\* (dlopen'ed and not dlclose'd), file_open (OUTSDIF.d open on unit funit),
\* the function pointers, the size of the work vector, and the calls into
\* CUTEst made by the last evaluation.

Nullptr ==
    "nullptr"

ConstrainedSymbols ==
    {"cutest_cint_csetup_", "cutest_cfn_", "cutest_cint_cofg_",
     "cutest_cint_cjprod_", "cutest_cint_ccifg_", "cutest_cint_chprod_",
     "cutest_cdh_", "cutest_clfg_", "cutest_cterminate_"}

UnconstrainedSymbols ==
    {"cutest_usetup_", "cutest_ufn_", "cutest_ugr_", "cutest_uofg_",
     "cutest_cint_uhprod_", "cutest_udh_", "cutest_uterminate_"}

CommonSymbols ==
    {"fortran_open_", "cutest_cdimen_", "fortran_close_"}

AllSymbols ==
    CommonSymbols \cup ConstrainedSymbols \cup UnconstrainedSymbols

\* dlfun(name) throws std::runtime_error when dlsym reports an error.
HasSymbol(l, name) ==
    name \in l.env.symbols

\* The exception leaves the constructor: the object is not constructed and
\* its destructor will not run.
CtorThrew(l, what) ==
    [l EXCEPT !.err = what]

\* The function pointers the constructor looks up, in the order of the
\* assignments: member, symbol for ncon > 0, symbol for ncon = 0 (Nullptr:
\* no lookup; "eval_obj_p": the value of that member).
PointerTable ==
    << <<"eval_obj_p",              "cutest_cfn_",         "cutest_ufn_">>,
       <<"eval_obj_grad_p",         "cutest_cint_cofg_",   "cutest_ugr_">>,
       <<"eval_obj_and_grad_p",     "cutest_cint_cofg_",   "cutest_uofg_">>,
       <<"eval_constr_p",           "eval_obj_p",          Nullptr>>,
       <<"eval_constr_grad_prod_p", "cutest_cint_cjprod_", Nullptr>>,
       <<"eval_constr_i_grad_p",    "cutest_cint_ccifg_",  Nullptr>>,
       <<"eval_lagr_hess_prod_p",   "cutest_cint_chprod_", "cutest_cint_uhprod_">>,
       <<"eval_lagr_hess_p",        "cutest_cdh_",         "cutest_udh_">>,
       <<"eval_lagr_grad_p",        "cutest_clfg_",        "cutest_ugr_">> >>

PointerNames ==
    {PointerTable[k][1] : k \in 1..Len(PointerTable)}

\* The assignments of the function pointers from entry k on; the first
\* failing dlfun throws.
RECURSIVE AssignPointers(_, _)
AssignPointers(l, k) ==
    IF k > Len(PointerTable) THEN l
    ELSE LET member == PointerTable[k][1]
             source == IF l.ncon > 0 THEN PointerTable[k][2]
                       ELSE PointerTable[k][3]
         IN  IF source = Nullptr
             THEN AssignPointers([l EXCEPT !.ptr[member] = Nullptr], k + 1)
             ELSE IF source = "eval_obj_p"
             THEN AssignPointers([l EXCEPT !.ptr[member] = l.ptr["eval_obj_p"]],
                                 k + 1)
             ELSE IF ~HasSymbol(l, source) THEN CtorThrew(l, "dlsym " \o source)
             ELSE AssignPointers([l EXCEPT !.ptr[member] = source], k + 1)

MaxOf(a, b) ==
    IF a >= b THEN a ELSE b

\* The members before the constructor body runs.
Members(env) ==
    [env |-> env, err |-> NoError,
     dlopened |-> FALSE, handle_open |-> FALSE, dlclose_calls |-> 0,
     file_opened |-> FALSE, file_open |-> FALSE, terminated |-> FALSE,
     nvar |-> 0, ncon |-> 0, m |-> 0, work_size |-> 0,
     ptr |-> [member \in PointerNames |-> Nullptr],
     calls |-> <<>>]

\* CUTEstLoader::CUTEstLoader(so_fname, outsdif_fname)
CUTEstLoader_ctor(env) ==
    LET l0 == Members(env)
    IN  IF ~env.so_exists THEN CtorThrew(l0, "Failed to open library")
        ELSE
        LET l1 == [l0 EXCEPT !.dlopened = TRUE, !.handle_open = TRUE]
        IN  IF ~HasSymbol(l1, "fortran_open_")
            THEN CtorThrew(l1, "dlsym fortran_open_")
            ELSE IF ~env.open_ok THEN CtorThrew(l1, "Failed to open OUTSDIF.d")
            ELSE
            LET l2 == [l1 EXCEPT !.file_opened = TRUE, !.file_open = TRUE]
            IN  IF ~HasSymbol(l2, "cutest_cdimen_")
                THEN CtorThrew(l2, "dlsym cutest_cdimen_")
                ELSE IF ~env.cdimen_ok
                THEN CtorThrew(l2, "Failed to call cutest_cdimen")
                ELSE
                LET l3    == [l2 EXCEPT !.nvar = env.nvar, !.ncon = env.ncon]
                    setup == IF l3.ncon > 0 THEN "cutest_cint_csetup_"
                             ELSE "cutest_usetup_"
                IN  IF ~HasSymbol(l3, setup) THEN CtorThrew(l3, "dlsym " \o setup)
                    ELSE IF ~env.setup_ok
                    THEN CtorThrew(l3, "Failed to call setup")
                    ELSE
                    LET l4 == IF l3.ncon > 0
                              THEN [l3 EXCEPT !.work_size = MaxOf(l3.nvar, l3.ncon)]
                              ELSE l3
                    IN  AssignPointers(l4, 1)

\* CUTEstProblem::CUTEstProblem: impl = make_unique<CUTEstLoader>(...);
\* n = nvar; m = ncon.
CUTEstProblem_ctor(env) ==
    LET l == CUTEstLoader_ctor(env)
    IN  IF l.err # NoError THEN l ELSE [l EXCEPT !.m = l.ncon]

\* A call into CUTEst through the function pointer member, with or without
\* work.data() among its arguments.
CallThrough(l, member, with_work) ==
    [l EXCEPT !.calls = Append(@, [member |-> member, through |-> l.ptr[member],
                                   work |-> with_work,
                                   work_size |-> l.work_size])]

NoCalls(l) ==
    [l EXCEPT !.calls = <<>>]

\* The public evaluations of CUTEstProblem with the loader methods they
\* delegate to.
CUTEstProblem_eval_f(l) ==
    IF l.m = 0 THEN CallThrough(NoCalls(l), "eval_obj_p", FALSE)
    ELSE CallThrough(NoCalls(l), "eval_obj_p", TRUE)

CUTEstProblem_eval_grad_f(l) ==
    IF l.m = 0 THEN CallThrough(NoCalls(l), "eval_obj_grad_p", FALSE)
    ELSE CallThrough(NoCalls(l), "eval_obj_grad_p", TRUE)

\* Faulty variant of CUTEstProblem_eval_g: the constraints are evaluated
\* whatever m and ncon are.
CUTEstProblem_eval_g_unguarded(l) ==
    CallThrough(NoCalls(l), "eval_constr_p", TRUE)

CUTEstProblem_eval_g(l) ==
    IF l.m > 0 THEN
        IF l.ncon = 0 THEN NoCalls(l)
        ELSE CallThrough(NoCalls(l), "eval_constr_p", TRUE)
    ELSE NoCalls(l)

CUTEstProblem_eval_grad_g_prod(l) ==
    IF l.m > 0 THEN
        IF l.ncon = 0 THEN NoCalls(l)
        ELSE CallThrough(NoCalls(l), "eval_constr_grad_prod_p", FALSE)
    ELSE NoCalls(l)

CUTEstProblem_eval_grad_gi(l) ==
    IF l.m > 0 THEN
        IF l.ncon = 0 THEN NoCalls(l)
        ELSE CallThrough(NoCalls(l), "eval_constr_i_grad_p", FALSE)
    ELSE NoCalls(l)

CUTEstProblem_eval_hess_L_prod(l) ==
    CallThrough(NoCalls(l), "eval_lagr_hess_prod_p", FALSE)

CUTEstProblem_eval_hess_L(l) ==
    CallThrough(NoCalls(l), "eval_lagr_hess_p", FALSE)

CUTEstProblem_eval_f_grad_f(l) ==
    CallThrough(NoCalls(l), "eval_obj_and_grad_p", FALSE)

CUTEstProblem_eval_grad_L(l) ==
    IF l.ncon = 0 THEN CallThrough(NoCalls(l), "eval_lagr_grad_p", FALSE)
    ELSE CallThrough(NoCalls(l), "eval_lagr_grad_p", TRUE)

\* CUTEstLoader::~CUTEstLoader.  An exception that leaves the destructor
\* calls std::terminate: the rest of the destructor does not run.
CUTEstLoader_dtor(l) ==
    LET terminate == IF l.ncon > 0 THEN "cutest_cterminate_"
                     ELSE "cutest_uterminate_"
    IN  IF ~HasSymbol(l, terminate) THEN [l EXCEPT !.err = "dlsym " \o terminate]
        ELSE IF ~l.env.terminate_ok
        THEN [l EXCEPT !.err = "Failed to call " \o terminate]
        ELSE
        LET l1 == [l EXCEPT !.terminated = TRUE]
        IN  IF ~HasSymbol(l1, "fortran_close_")
            THEN [l1 EXCEPT !.err = "dlsym fortran_close_"]
            ELSE IF ~l.env.close_ok
            THEN [l1 EXCEPT !.err = "Failed to close OUTSDIF.d file"]
            ELSE
            LET l2 == [l1 EXCEPT !.file_open = FALSE]
            IN  IF l2.handle_open
                THEN [l2 EXCEPT !.handle_open = FALSE, !.dlclose_calls = @ + 1]
                ELSE l2

\* The environments explored: the library exports every symbol, or every
\* symbol but one.
CutInit ==
    /\ pc = "construct"
    /\ \E so_exists, open_ok, cdimen_ok, setup_ok, terminate_ok, close_ok \in BOOLEAN,
          ncon \in 0..MaxM,
          absent \in {{}} \cup {{name} : name \in AllSymbols} :
          cutest = [env |-> [so_exists |-> so_exists,
                             symbols |-> AllSymbols \ absent,
                             open_ok |-> open_ok, cdimen_ok |-> cdimen_ok,
                             setup_ok |-> setup_ok,
                             terminate_ok |-> terminate_ok,
                             close_ok |-> close_ok,
                             nvar |-> NDim, ncon |-> ncon]]
    /\ prj = Idle /\ pen = Idle /\ alm = Idle /\ ev = Idle
    /\ par = Idle /\ thr = Idle

Construct ==
    /\ pc = "construct"
    /\ cutest' = CUTEstProblem_ctor(cutest.env)
    /\ pc' = IF cutest'.err = NoError THEN "constructed" ELSE "ctor_threw"
    /\ UNCHANGED <<prj, pen, alm, ev, par, thr>>

Cut_eval_f ==
    /\ pc = "constructed"
    /\ cutest' = CUTEstProblem_eval_f(cutest)
    /\ UNCHANGED <<pc, prj, pen, alm, ev, par, thr>>

Cut_eval_grad_f ==
    /\ pc = "constructed"
    /\ cutest' = CUTEstProblem_eval_grad_f(cutest)
    /\ UNCHANGED <<pc, prj, pen, alm, ev, par, thr>>

Cut_eval_g ==
    /\ pc = "constructed"
    /\ cutest' = CUTEstProblem_eval_g(cutest)
    /\ UNCHANGED <<pc, prj, pen, alm, ev, par, thr>>

Cut_eval_grad_g_prod ==
    /\ pc = "constructed"
    /\ cutest' = CUTEstProblem_eval_grad_g_prod(cutest)
    /\ UNCHANGED <<pc, prj, pen, alm, ev, par, thr>>

Cut_eval_grad_gi ==
    /\ pc = "constructed"
    /\ cutest' = CUTEstProblem_eval_grad_gi(cutest)
    /\ UNCHANGED <<pc, prj, pen, alm, ev, par, thr>>

Cut_eval_hess_L_prod ==
    /\ pc = "constructed"
    /\ cutest' = CUTEstProblem_eval_hess_L_prod(cutest)
    /\ UNCHANGED <<pc, prj, pen, alm, ev, par, thr>>

Cut_eval_hess_L ==
    /\ pc = "constructed"
    /\ cutest' = CUTEstProblem_eval_hess_L(cutest)
    /\ UNCHANGED <<pc, prj, pen, alm, ev, par, thr>>

Cut_eval_f_grad_f ==
    /\ pc = "constructed"
    /\ cutest' = CUTEstProblem_eval_f_grad_f(cutest)
    /\ UNCHANGED <<pc, prj, pen, alm, ev, par, thr>>

Cut_eval_grad_L ==
    /\ pc = "constructed"
    /\ cutest' = CUTEstProblem_eval_grad_L(cutest)
    /\ UNCHANGED <<pc, prj, pen, alm, ev, par, thr>>

\* The problem goes out of scope: ~CUTEstProblem destroys the loader.
Destroy ==
    /\ pc = "constructed"
    /\ cutest' = CUTEstLoader_dtor(cutest)
    /\ pc' = IF cutest'.err = NoError THEN "destroyed" ELSE "std_terminate"
    /\ UNCHANGED <<prj, pen, alm, ev, par, thr>>

CutNext ==
    \/ Construct
    \/ Cut_eval_f
    \/ Cut_eval_grad_f
    \/ Cut_eval_g
    \/ Cut_eval_grad_g_prod
    \/ Cut_eval_grad_gi
    \/ Cut_eval_hess_L_prod
    \/ Cut_eval_hess_L
    \/ Cut_eval_f_grad_f
    \/ Cut_eval_grad_L
    \/ Destroy

SpecCUTEst ==
    CutInit /\ [][CutNext]_vars

ConstraintOnlyPointers ==
    {"eval_constr_p", "eval_constr_grad_prod_p", "eval_constr_i_grad_p"}

\* C25: for every successfully constructed CUTEstProblem, constrained or
\* unconstrained, no public evaluation calls through a null function pointer
\* or passes the never-resized work vector to CUTEst; the constraint-only
\* pointers are null exactly when ncon = 0.
C25_NoNullCallNoUnsizedWork ==
    pc = "constructed" =>
        /\ \A k \in 1..Len(cutest.calls) :
              /\ cutest.calls[k].through # Nullptr
              /\ cutest.calls[k].work => cutest.calls[k].work_size > 0
        /\ \A member \in ConstraintOnlyPointers :
              cutest.ptr[member] = Nullptr <=> cutest.ncon = 0
        /\ \A member \in PointerNames \ ConstraintOnlyPointers :
              cutest.ptr[member] # Nullptr

\* An unconstrained problem whose last evaluation called CUTEst through a
\* pointer while its constraint pointers are null.
C25_Witness ==
    /\ pc = "constructed"
    /\ cutest.ncon = 0
    /\ cutest.ptr["eval_constr_p"] = Nullptr
    /\ cutest.work_size = 0
    /\ Len(cutest.calls) = 1
    /\ cutest.calls[1].member = "eval_lagr_grad_p"

Ended ==
    pc \in {"ctor_threw", "destroyed", "std_terminate"}

\* C26: every resource CUTEstLoader acquires is released on every path:
\* once dlopen succeeded dlclose has been called exactly once when the
\* loader has ended, and the OUTSDIF file is closed, including when the
\* constructor throws after dlopen and when the terminate routine reports
\* an error in the destructor.
C26_ResourcesReleased ==
    Ended =>
        /\ cutest.dlopened => (cutest.dlclose_calls = 1 /\ ~cutest.handle_open)
        /\ ~cutest.file_open

\* What the code does: the resources are released exactly on the path where
\* the constructor and the destructor both complete.
C26_ReleasedOnlyOnCleanPath ==
    Ended =>
        /\ pc = "destroyed" =>
              (cutest.dlclose_calls = 1 /\ ~cutest.handle_open /\ ~cutest.file_open)
        /\ pc # "destroyed" =>
              (cutest.dlclose_calls = 0 /\ cutest.handle_open = cutest.dlopened
               /\ cutest.file_open = cutest.file_opened)

------------------------------------------------------------------------------
\* Loading function g of a CasADi problem: the dimensions n, m (and p for a
\* problem with parameters) asked for by the caller against the signature
\* of the generated function g(x) or g(x, param).  A signature is a record
\* of the sizes of g's arguments: size1 (rows) and size2 (columns) of the
\* inputs x and param and of the output.

MaxP ==
    2

ColumnCounts ==
    {1, 2}

dim(rows, cols) ==
    <<rows, cols>>

\* wrap_load: an invalid_argument thrown while loading is rethrown as
\* "Unable to load function 'so_name:name': what".
wrap_load(name, what) ==
    [err |-> "Unable to load function '" \o name \o "': " \o what,
     type |-> "invalid_argument", function |-> name]

\* CasADiFunctionEvaluator::validate_dimensions: the sizes of the function
\* against the expected ones, inputs first; NoError when all agree.
validate_dimensions(actual_in, actual_out, dim_in, dim_out) ==
    IF \E k \in 1..Len(dim_in) : actual_in[k] # dim_in[k]
    THEN "Invalid dimension for input argument"
    ELSE IF \E k \in 1..Len(dim_out) : actual_out[k] # dim_out[k]
    THEN "Invalid dimension for output argument"
    ELSE NoError

\* The sizes of the inputs and outputs of g as casadi reports them.
size_in(sig, with_param) ==
    IF with_param
    THEN <<dim(sig.size1_x, sig.size2_x), dim(sig.size1_param, sig.size2_param)>>
    ELSE <<dim(sig.size1_x, sig.size2_x)>>

size_out(sig) ==
    <<dim(sig.size1_out, sig.size2_out)>>

expected_in(n, p, with_param) ==
    IF with_param THEN <<dim(n, 1), dim(p, 1)>> ELSE <<dim(n, 1)>>

\* Faulty variant of load_g_unknown_dims: the dimensions the caller did
\* give are not compared with g's.
load_g_unknown_dims_unvalidated(n, m, p, sig, with_param) ==
    IF sig.size2_x # 1
    THEN [err |-> "First input argument should be a column vector."]
    ELSE IF with_param /\ sig.size2_param # 1
    THEN [err |-> "Second input argument should be a column vector."]
    ELSE IF sig.size2_out # 1
    THEN [err |-> "First output argument should be a column vector."]
    ELSE [err |-> NoError,
          n |-> IF n = 0 THEN sig.size1_x ELSE n,
          m |-> IF m = 0 THEN sig.size1_out ELSE m,
          p |-> IF with_param /\ p = 0 THEN sig.size1_param ELSE p]

load_g_unknown_dims(n, m, p, sig, with_param) ==
    IF sig.size2_x # 1
    THEN [err |-> "First input argument should be a column vector."]
    ELSE IF with_param /\ sig.size2_param # 1
    THEN [err |-> "Second input argument should be a column vector."]
    ELSE IF sig.size2_out # 1
    THEN [err |-> "First output argument should be a column vector."]
    ELSE
    LET n1 == IF n = 0 THEN sig.size1_x ELSE n
        m1 == IF m = 0 THEN sig.size1_out ELSE m
        p1 == IF with_param /\ p = 0 THEN sig.size1_param ELSE p
    IN  [err |-> validate_dimensions(size_in(sig, with_param), size_out(sig),
                                     expected_in(n1, p1, with_param),
                                     <<dim(m1, 1)>>),
         n |-> n1, m |-> m1, p |-> p1]

load_g_known_dims(n, m, p, sig, with_param) ==
    [err |-> validate_dimensions(size_in(sig, with_param), size_out(sig),
                                 expected_in(n, p, with_param), <<dim(m, 1)>>),
     n |-> n, m |-> m, p |-> p]

\* The part of load_CasADi_problem (with_param = FALSE, p unused) and of
\* load_CasADi_problem_with_param / CasADiProblem::CasADiProblem
\* (with_param = TRUE) that loads g and fixes the dimensions of the problem.
load_g(n, m, p, sig, with_param) ==
    LET unknown == n = 0 \/ m = 0 \/ (with_param /\ p = 0)
        g == IF unknown THEN load_g_unknown_dims(n, m, p, sig, with_param)
             ELSE load_g_known_dims(n, m, p, sig, with_param)
    IN  IF g.err # NoError THEN wrap_load("g", g.err)
        ELSE [err |-> NoError, n |-> g.n, m |-> g.m, p |-> g.p]

Signatures ==
    [size1_x : 0..NDim, size2_x : ColumnCounts,
     size1_param : 0..MaxP, size2_param : ColumnCounts,
     size1_out : 0..MaxM, size2_out : ColumnCounts]

DimInit ==
    /\ pc = "load_g"
    /\ \E n \in 0..NDim, m \in 0..MaxM, p \in 0..MaxP, sig \in Signatures :
          ev = [n |-> n, m |-> m, p |-> p, sig |-> sig]
    /\ prj = Idle /\ pen = Idle /\ alm = Idle /\ par = Idle /\ thr = Idle
    /\ cutest = Idle

Call_load_CasADi_problem_g ==
    /\ pc = "load_g"
    /\ ev.p = 0 /\ ev.sig.size1_param = 0 /\ ev.sig.size2_param = 1
    /\ ev' = [asked |-> ev, with_param |-> FALSE,
              loaded |-> load_g(ev.n, ev.m, ev.p, ev.sig, FALSE)]
    /\ pc' = IF ev'.loaded.err = NoError THEN "g_loaded" ELSE "g_failed"
    /\ UNCHANGED <<prj, pen, alm, par, thr, cutest>>

Call_load_CasADi_problem_with_param_g ==
    /\ pc = "load_g"
    /\ ev' = [asked |-> ev, with_param |-> TRUE,
              loaded |-> load_g(ev.n, ev.m, ev.p, ev.sig, TRUE)]
    /\ pc' = IF ev'.loaded.err = NoError THEN "g_loaded" ELSE "g_failed"
    /\ UNCHANGED <<prj, pen, alm, par, thr, cutest>>

DimNext ==
    \/ Call_load_CasADi_problem_g
    \/ Call_load_CasADi_problem_with_param_g

SpecCasADiDims ==
    DimInit /\ [][DimNext]_vars

\* The dimensions asked for agree with g: every argument of g is a column
\* and every non-zero dimension asked for is g's.
AgreesWithG(asked, with_param) ==
    /\ asked.sig.size2_x = 1 /\ asked.sig.size2_out = 1
    /\ with_param => asked.sig.size2_param = 1
    /\ asked.n # 0 => asked.n = asked.sig.size1_x
    /\ asked.m # 0 => asked.m = asked.sig.size1_out
    /\ (with_param /\ asked.p # 0) => asked.p = asked.sig.size1_param

C27_WitnessMismatch ==
    /\ pc = "g_failed"
    /\ ev.asked.n = 0 /\ ev.asked.m = 2 /\ ev.asked.sig.size1_out = 1
    /\ ev.asked.sig.size2_x = 1 /\ ev.asked.sig.size2_out = 1
    /\ ev.asked.sig.size2_param = 1

------------------------------------------------------------------------------
\* Problem::calc_yhat_dTyhat called with one penalty factor sigma, given as
\* the one-element vector (sigma) or as the m-vector (sigma, ..., sigma).

CalcInit ==
    /\ pc = "calc"
    /\ \E m \in 1..MaxM :
       \E g \in [1..m -> GVals], D \in [1..m -> DBounds],
          y \in [1..m -> MultVals], sigma \in PenaltyVals :
          ev = [Fresh([ProblemAt(m, MinimalProblemMissing, FALSE) EXCEPT
                          !.g = g,
                          !.D = [lowerbound |-> [i \in 1..m |-> D[i][1]],
                                 upperbound |-> [i \in 1..m |-> D[i][2]]]],
                      y, <<sigma>>)
                   EXCEPT !.buf.yhat = g]
    /\ prj = Idle /\ pen = Idle /\ alm = Idle /\ par = Idle /\ thr = Idle
    /\ cutest = Idle

\* The m-vector with every component sigma.
Replicated(Sigma, m) ==
    [i \in 1..m |-> Sigma[1]]

Call_calc_scalar ==
    /\ pc = "calc"
    /\ ev' = calc_yhat_dTyhat(ev, "yhat", "y", "Sigma")
    /\ pc' = "calc_scalar"
    /\ UNCHANGED <<prj, pen, alm, par, thr, cutest>>

Call_calc_general ==
    /\ pc = "calc"
    /\ ev' = calc_yhat_dTyhat(
                 [ev EXCEPT !.buf.Sigma = Replicated(ev.buf.Sigma, ev.prob.m)],
                 "yhat", "y", "Sigma")
    /\ pc' = "calc_general"
    /\ UNCHANGED <<prj, pen, alm, par, thr, cutest>>

CalcNext ==
    \/ Call_calc_scalar
    \/ Call_calc_general

SpecCalc ==
    CalcInit /\ [][CalcNext]_vars

\* The call with the other form of Sigma on the arguments of the call that
\* led to the current state.
OtherForm ==
    LET Sigma == IF pc = "calc_scalar"
                 THEN Replicated(ev.buf.Sigma, ev.prob.m)
                 ELSE <<ev.buf.Sigma[1]>>
    IN  calc_yhat_dTyhat(
            [Fresh(ev.prob, ev.buf.y, Sigma) EXCEPT !.buf.yhat = ev.prob.g],
            "yhat", "y", "Sigma")

\* C29: the scalar-penalty branch of calc_yhat_dTyhat (Sigma of size 1) is
\* equivalent to its general branch: for every g, y and D, the call with
\* Sigma = (sigma) gives the same yhat and the same returned d'yhat as the
\* call with the m-vector Sigma = (sigma, ..., sigma), for every m >= 1.
C29_ScalarEqualsGeneral ==
    pc \in {"calc_scalar", "calc_general"} =>
        /\ ev.ret = OtherForm.ret
        /\ ev.buf.yhat = OtherForm.buf.yhat

\* The scalar branch on a problem with two constraints, with a non-zero
\* d'yhat.
C29_Witness ==
    /\ pc = "calc_scalar"
    /\ ev.prob.m = 2
    /\ Len(ev.buf.Sigma) = 1
    /\ ev.buf.Sigma[1] # R(1)
    /\ Gt(ev.ret, R(0))
    /\ ev.buf.yhat[1] # R(0) /\ ev.buf.yhat[2] # R(0)

------------------------------------------------------------------------------
\* The grad_gi closure of a loaded CasADi problem, called repeatedly with
\* 1 <= i <= m (the code's 0 <= i < m), the generated grad_g returning or
\* raising in each call.

GradGiInit ==
    /\ pc = "ready"
    /\ \E m \in 1..MaxM, second_order \in BOOLEAN :
       \E J \in JacVals(m) :
          ev = [load_CasADi_problem(Exported, m, second_order)
                   EXCEPT !.prob.J = J]
    /\ prj = Idle /\ pen = Idle /\ alm = Idle /\ par = Idle /\ thr = Idle
    /\ cutest = Idle

\* grad_gi(x, i, g) in which grad_g returns.
Call_grad_gi ==
    /\ pc = "ready"
    /\ \E i \in 1..ev.prob.m :
          ev' = eval_grad_gi([ev EXCEPT !.buf.i = i,
                                        !.prob.grad_g_raises = FALSE],
                             i, "grad_gi")
    /\ pc' = "eval_grad_gi"
    /\ UNCHANGED <<prj, pen, alm, par, thr, cutest>>

\* grad_gi(x, i, g) in which grad_g raises.
Call_grad_gi_grad_g_raises ==
    /\ pc = "ready"
    /\ \E i \in 1..ev.prob.m :
          ev' = eval_grad_gi([ev EXCEPT !.buf.i = i,
                                        !.prob.grad_g_raises = TRUE],
                             i, "grad_gi")
    /\ pc' = "eval_grad_gi"
    /\ UNCHANGED <<prj, pen, alm, par, thr, cutest>>

GradGiNext ==
    \/ Call_grad_gi
    \/ Call_grad_gi_grad_g_raises
    \/ Return

SpecGradGi ==
    GradGiInit /\ [][GradGiNext]_vars

\* C30: the one-hot scratch vector w of the CasADi grad_gi closure is
\* all-zero at the start of every grad_gi call, after any sequence of
\* earlier calls with 0 <= i < m including calls in which grad_g raised;
\* hence every grad_gi(x, i) that returns has computed the gradient of
\* constraint i alone.
C30_ScratchZeroAtCall ==
    /\ pc = "ready" => ev.prob.w = ZeroVec(ev.prob.m)
    /\ (pc = "eval_grad_gi" /\ ~Thrown(ev)) =>
          ev.buf.grad_gi = ev.prob.J[ev.buf.i]

\* What the closure does: w is all-zero at the start of a call unless an
\* earlier call raised, and a call that returns leaves w(i) = 0.
C30_ScratchZeroUnlessRaised ==
    /\ (pc = "ready" /\ GradGFailed \notin ev.caught) =>
          ev.prob.w = ZeroVec(ev.prob.m)
    /\ (pc = "eval_grad_gi" /\ ~Thrown(ev)) => ev.prob.w[ev.buf.i] = R(0)
    /\ (pc = "eval_grad_gi" /\ ~Thrown(ev) /\ GradGFailed \notin ev.caught) =>
          ev.buf.grad_gi = ev.prob.J[ev.buf.i]

\* A call that returned the sum of two constraint gradients after an
\* earlier call raised.
C30_StaleOneHot ==
    /\ pc = "eval_grad_gi" /\ ~Thrown(ev)
    /\ GradGFailed \in ev.caught
    /\ ev.buf.i = 2
    /\ ev.prob.w[1] = R(1)
    /\ ev.buf.grad_gi = VAdd(ev.prob.J[1], ev.prob.J[2])
    /\ ev.buf.grad_gi # ev.prob.J[2]

=============================================================================
